---------------------------- MODULE Spec2Model ----------------------------
(***************************************************************************)
(* A model of wgkex (freifunkMUC/wgkex): the broker's key-exchange request *)
(* pipeline (wgkex/broker/app.py), the worker fleet registry and selector  *)
(* (wgkex/broker/metrics.py), the validators (wgkex/common/utils.py) and   *)
(* the worker's install path (wgkex/worker/mqtt.py, msg_queue.py,          *)
(* netlink.py), and the worker's bus client with its threads: the metrics  *)
(* loops, mark_offline_on_exit and the stale-peer flusher                  *)
(* (wgkex/worker/mqtt.py, app.py, netlink.py), the v3 API with its prefix  *)
(* allocator (wgkex/broker/ipam_json.py), the reloads of the allowlist and *)
(* the blacklist, and the checks of main() of the worker                   *)
(* (wgkex/worker/app.py).                                                  *)
(*                                                                         *)
(* Strings that the code takes apart (public keys, domains, prefixes,      *)
(* topics) are sequences of one-character strings; names that are only     *)
(* compared (worker names, metric names) are TLA+ strings.                 *)
(***************************************************************************)
EXTENDS Integers, Sequences, FiniteSets, TLC

(***************************************************************************)
(* Bounds of the model.                                                    *)
(***************************************************************************)
\* largest connected_peers value a metrics message carries
MaxPeers == 1
\* number of HTTP requests the handler pool accepts in one behaviour
MaxRequests == 2
\* number of bus messages the broker's MQTT thread handles in one behaviour
MaxBusMsgs == 3
\* the number of requests followed from the HTTP API to the worker's kernel
MaxInstallRequests == 1

(***************************************************************************)
(* Text helpers.                                                           *)
(***************************************************************************)
Rep(c, n) == [i \in 1..n |-> c]

\* str.startswith
StartsWith(s, p) == Len(s) >= Len(p) /\ SubSeq(s, 1, Len(p)) = p

UpperChars == {"A","B","C","D","E","F","G","H","I","J","K","L","M",
               "N","O","P","Q","R","S","T","U","V","W","X","Y","Z"}
LowerChars == {"a","b","c","d","e","f","g","h","i","j","k","l","m",
               "n","o","p","q","r","s","t","u","v","w","x","y","z"}
DigitChars == {"0","1","2","3","4","5","6","7","8","9"}
\* [A-Za-z0-9+/]
Base64Chars == UpperChars \cup LowerChars \cup DigitChars \cup {"+", "/"}
\* [AEIMQUYcgkosw480]
LastGroupChars == {"A","E","I","M","Q","U","Y","c","g","k","o","s","w","4","8","0"}
\* \w of Python's re on str
WordChars == UpperChars \cup LowerChars \cup DigitChars \cup {"_"}

(***************************************************************************)
(* Inputs: the public keys a request or a bus message may carry.           *)
(***************************************************************************)
KeyA == Rep("A", 43) \o <<"=">>
KeyB == Rep("B", 42) \o <<"E", "=">>
KeyC == Rep("C", 42) \o <<"E", "=">>
KeyD == Rep("D", 42) \o <<"E", "=">>
\* 44 characters, but the last group is not one a 32-byte key can end with
KeyBadTail == Rep("A", 42) \o <<"B", "=">>
KeyShort == <<"n","o","t","_","a","_","k","e","y">>

(***************************************************************************)
(* wgkex/common/utils.py                                                   *)
(***************************************************************************)
\* WG_PUBKEY_PATTERN.match(pubkey) is not None, for a str pubkey.  "$" of
\* Python's re also matches before one trailing newline.
MatchesPubkeyPattern(s) ==
  /\ Len(s) \in {44, 45}
  /\ \A i \in 1..42 : s[i] \in Base64Chars
  /\ s[43] \in LastGroupChars
  /\ s[44] = "="
  /\ Len(s) = 45 => s[45] = "\n"


(***************************************************************************)
(* Configuration (wgkex/config/config.py, class Config).                   *)
(***************************************************************************)
\* Config.domain_prefixes
DomainPrefixes == << <<"f","_">> >>
DomainA == <<"f","_","a">>
DomainB == <<"f","_","b">>
\* listed in the configuration, but with none of the configured prefixes
DomainNoPrefix == <<"g","_","c">>
\* not listed in the configuration
DomainUnknown == <<"f","_","z">>
\* str(None): what from_dict makes of a request without a "domain"
StrNone == <<"N","o","n","e">>
\* Config.domains
Domains == <<DomainA, DomainB, DomainNoPrefix>>

\* the worker names that appear on the bus
WorkerNames == {"w1", "w2"}

\* The 'workers' key of the configuration file, as Workers.from_dict reads
\* it: none configured, or w1 with twice the weight of w2.
NoWorkersConfig == <<>>
WeightedConfig ==
  [w \in {"w1", "w2"} |-> IF w = "w1" THEN [weight |-> 2] ELSE [weight |-> 1]]
WorkerConfigs == {NoWorkersConfig, WeightedConfig}

VARIABLES
  workers_cfg,      \* Config.workers._workers: worker -> Worker
  worker_metrics,   \* app.worker_metrics.data, in insertion order
  worker_data,      \* app.worker_data: (worker, domain) -> endpoint dict
  blacklist,        \* Blacklist._blacklist: the keys of the deny-list
  allowlist,        \* AllowlistManager._allowlist: domain -> allowed keys
  parker,           \* the v3 API: the ranges file of JSONFileIPAM, its calls, the parker registry
  published,        \* what the broker has published on the bus, in order
  http,             \* the HTTP handler threads: position and locals
  response,         \* the HTTP response sent last
  nreq,             \* number of requests accepted so far
  nbus,             \* number of bus messages handled so far
  probe,            \* the last get_best_worker call made on the registry
  rx,               \* per worker: how many published messages it has received
  q,                \* per worker: msg_queue.q, the UniqueQueue of (domain, key)
  netlink,          \* per worker: the peers, routes and FDB entries of its kernel
  mqtt_client,      \* per worker: its paho client (connected, will, subscriptions)
  exit_event,       \* per worker: the threading.Event set by the signal handler
  threads,          \* per worker: where each of its background threads stands
  bus,              \* what the workers and the bus server have published, in order
  brx,              \* how many messages of bus the broker has handled
  calls,            \* per worker: the calls of link_handler, in order
  handshakes        \* per worker: last handshake time of the peers of its kernel

vars == <<workers_cfg, worker_metrics, worker_data, blacklist, allowlist, parker,
          published, http, response, nreq, nbus, probe, rx, q, netlink,
          mqtt_client, exit_event, threads, bus, brx, calls, handshakes>>

broker_vars == <<workers_cfg, worker_metrics, worker_data, blacklist, allowlist, parker,
                 published, http, response, nreq, nbus, probe>>
queue_vars == <<rx, q, netlink>>
life_vars == <<mqtt_client, exit_event, threads, bus, brx, calls, handshakes>>
worker_vars == <<queue_vars, life_vars>>

\* Worker.from_dict: a weight of 0 is read as 1
WorkerWeight(cfg, w) == IF cfg[w].weight # 0 THEN cfg[w].weight ELSE 1

RECURSIVE SumWeights(_, _)
SumWeights(cfg, ws) ==
  IF ws = {} THEN 0
  ELSE LET w == CHOOSE x \in ws : TRUE
       IN  WorkerWeight(cfg, w) + SumWeights(cfg, ws \ {w})

\* Workers.from_dict: total_weight
total_weight(cfg) ==
  LET total == SumWeights(cfg, DOMAIN cfg)
  IN  IF total > 1 THEN total ELSE 1

\* Workers.relative_worker_weight, as the pair numerator / total_weight
relative_worker_weight_num(cfg, w) ==
  IF w \in DOMAIN cfg THEN WorkerWeight(cfg, w) ELSE 1

\* Workers.all_pops and Worker.pop are read by get_best_workers but are not
\* defined by config.py: the specification knows no points of presence, so
\* every worker is in the one unnamed PoP that get_best_workers gives an
\* unconfigured worker.
DefaultPop == ""
WorkerPop(cfg, w) == DefaultPop
all_pops(cfg) == <<DefaultPop>>

is_valid_domain_prefix_only(domain) ==
  \E i \in 1..Len(DomainPrefixes) : StartsWith(domain, DomainPrefixes[i])

\* is_valid_domain
is_valid_domain(domain) ==
  /\ \E i \in 1..Len(Domains) : Domains[i] = domain
  /\ \E i \in 1..Len(DomainPrefixes) : StartsWith(domain, DomainPrefixes[i])

\* is_valid_wg_pubkey, for a dict msg and the value msg.get("public_key"):
\* TRUE when it returns the key, FALSE when it raises (ValueError for a str
\* that does not match, TypeError for None).
is_valid_wg_pubkey(msg) ==
  /\ "public_key" \in DOMAIN msg
  /\ MatchesPubkeyPattern(msg["public_key"])

(***************************************************************************)
(* wgkex/broker/metrics.py                                                 *)
(***************************************************************************)
CONNECTED_PEERS_METRIC == "connected_peers"

\* an empty dict
EmptyDict == [x \in {} |-> 0]

\* dict assignment d[k] = v
DictSet(d, k, v) == [x \in DOMAIN d \cup {k} |-> IF x = k THEN v ELSE d[x]]

\* dict.get(k, default)
DictGet(d, k, default) == IF k \in DOMAIN d THEN d[k] ELSE default

\* WorkerMetrics(worker): the dataclass defaults
NewWorkerMetrics(w) == [worker |-> w, domain_data |-> EmptyDict, online |-> FALSE]

\* WorkerMetrics.get_domain_metrics
get_domain_metrics(wm, domain) == DictGet(wm.domain_data, domain, EmptyDict)

is_online_flag_only(wm, domain) == wm.online

is_online_default_zero(wm, domain) ==
  IF domain # <<>>
  THEN wm.online
       /\ DictGet(get_domain_metrics(wm, domain), CONNECTED_PEERS_METRIC, 0) >= 0
  ELSE wm.online

\* WorkerMetrics.is_online
is_online(wm, domain) ==
  IF domain # <<>>
  THEN wm.online
       /\ DictGet(get_domain_metrics(wm, domain), CONNECTED_PEERS_METRIC, -1) >= 0
  ELSE wm.online

\* WorkerMetrics.set_metric
set_metric(wm, domain, metric, value) ==
  IF domain \in DOMAIN wm.domain_data
  THEN [wm EXCEPT !.domain_data =
          DictSet(@, domain, DictSet(wm.domain_data[domain], metric, value))]
  ELSE [wm EXCEPT !.domain_data =
          DictSet(@, domain, DictSet(EmptyDict, metric, value))]

Max0(x) == IF x > 0 THEN x ELSE 0

RECURSIVE SumPeers(_, _)
SumPeers(dd, ds) ==
  IF ds = {} THEN 0
  ELSE LET d == CHOOSE x \in ds : TRUE
       IN  Max0(DictGet(dd[d], CONNECTED_PEERS_METRIC, 0)) + SumPeers(dd, ds \ {d})

\* WorkerMetrics.get_peer_count
get_peer_count(wm) == SumPeers(wm.domain_data, DOMAIN wm.domain_data)

\* the position of worker w in the registry, 0 when it has no entry
IndexOf(reg, w) ==
  IF \E i \in 1..Len(reg) : reg[i].worker = w
  THEN CHOOSE i \in 1..Len(reg) : reg[i].worker = w
  ELSE 0

Registered(reg) == { reg[i].worker : i \in 1..Len(reg) }

\* WorkerMetricsCollection.get
get(reg, w) == IF IndexOf(reg, w) # 0 THEN reg[IndexOf(reg, w)] ELSE NewWorkerMetrics(w)

\* WorkerMetricsCollection.update
update(reg, w, domain, metric, value) ==
  IF IndexOf(reg, w) # 0
  THEN [reg EXCEPT ![IndexOf(reg, w)] = set_metric(@, domain, metric, value)]
  ELSE Append(reg, set_metric(NewWorkerMetrics(w), domain, metric, value))

\* WorkerMetricsCollection.set_online
set_online(reg, w) ==
  IF IndexOf(reg, w) # 0
  THEN [reg EXCEPT ![IndexOf(reg, w)].online = TRUE]
  ELSE Append(reg, [NewWorkerMetrics(w) EXCEPT !.online = TRUE])

\* WorkerMetricsCollection.set_offline
set_offline(reg, w) ==
  IF IndexOf(reg, w) # 0
  THEN [reg EXCEPT ![IndexOf(reg, w)].online = FALSE]
  ELSE reg

RECURSIVE SumSeq(_, _)
SumSeq(reg, i) == IF i = 0 THEN 0 ELSE get_peer_count(reg[i]) + SumSeq(reg, i - 1)

\* WorkerMetricsCollection.get_total_peer_count
get_total_peer_count(reg) == SumSeq(reg, Len(reg))

\* Python's round() of the quotient n / m (n >= 0, m > 0): to the nearest
\* integer, a tie to the even one.  round() is applied to the float
\* rel_weight * total_peers; for the weights and peer counts of this model
\* the float product rounds as the exact quotient does.
RoundHalfEven(n, m) ==
  LET quot == n \div m
      rem == n % m
  IN  IF 2 * rem < m THEN quot
      ELSE IF 2 * rem > m THEN quot + 1
      ELSE IF quot % 2 = 0 THEN quot ELSE quot + 1

\* target = round(rel_weight * total_peers)
target_of(cfg, w, total_peers) ==
  RoundHalfEven(relative_worker_weight_num(cfg, w) * total_peers, total_weight(cfg))

WorkerResultTargetMinusPeers(cfg, wm, total_peers) ==
  [name   |-> wm.worker,
   diff   |-> target_of(cfg, wm.worker, total_peers) - get_peer_count(wm),
   peers  |-> get_peer_count(wm),
   target |-> target_of(cfg, wm.worker, total_peers)]

\* WorkerResult(wm.worker, worker_cfg.id, diff, peers, target); the id is
\* not read by any caller and is left out
WorkerResult(cfg, wm, total_peers) ==
  [name   |-> wm.worker,
   diff   |-> get_peer_count(wm) - target_of(cfg, wm.worker, total_peers),
   peers  |-> get_peer_count(wm),
   target |-> target_of(cfg, wm.worker, total_peers)]

SortedLast(results) ==
  LET worst == CHOOSE i \in 1..Len(results) :
                 \A j \in 1..Len(results) : results[i].diff >= results[j].diff
  IN  results[worst]

\* sorted(results, key=diff)[0]: the sort is stable, so the first of the
\* results with the least diff
SortedFirst(results) ==
  LET best == CHOOSE i \in 1..Len(results) :
                /\ \A j \in 1..Len(results) : results[i].diff <= results[j].diff
                /\ \A j \in 1..(i - 1) : results[j].diff > results[i].diff
  IN  results[best]

\* the candidates of one PoP: the online workers of that PoP, in the order of
\* self.data.values()
candidates(cfg, reg, domain, pop) ==
  LET total_peers == get_total_peer_count(reg)
      Keep(wm) == WorkerPop(cfg, wm.worker) = pop /\ is_online(wm, domain)
      kept == SelectSeq(reg, Keep)
  IN  [i \in 1..Len(kept) |-> WorkerResult(cfg, kept[i], total_peers)]

\* WorkerMetricsCollection.get_best_workers(domain, []): the best candidate
\* of every PoP that has one.  get_best_worker is its only caller and passes
\* no currently selected workers, so the sticky-worker branch is not taken.
get_best_workers(cfg, reg, domain) ==
  LET pops == all_pops(cfg)
      HasCandidate(pop) == candidates(cfg, reg, domain, pop) # <<>>
      with == SelectSeq(pops, HasCandidate)
  IN  [i \in 1..Len(with) |-> SortedFirst(candidates(cfg, reg, domain, with[i]))]

\* the worker name None
None == "None"
NoWorker == [name |-> None, diff |-> 0, peers |-> 0]

\* WorkerMetricsCollection.get_best_worker
get_best_worker(cfg, reg, domain) ==
  LET workers == get_best_workers(cfg, reg, domain)
  IN  IF Len(workers) = 0 THEN NoWorker
      ELSE LET worker == SortedFirst(workers)
           IN  [name |-> worker.name, diff |-> worker.diff, peers |-> worker.peers]


(***************************************************************************)
(* wgkex/broker/blacklist.py, wgkex/allowlist/allowlist.py                 *)
(***************************************************************************)
\* Blacklist.is_blacklisted
is_blacklisted(bl, key) == key \in bl

\* AllowlistManager.is_key_allowed
is_key_allowed(al, domain, public_key) ==
  IF domain \notin DOMAIN al THEN FALSE ELSE public_key \in al[domain]

\* What a reload finds at the path of a list: no file, a file without YAML
\* content (yaml.safe_load returns None), a file yaml.safe_load raises
\* YAMLError on, or a YAML value.  A value is a mapping or a sequence
\* (top), with entries that carry a name, whether they hold a nested list
\* or mapping, and the keys that one holds.
NoYaml == [top |-> "none", entries |-> <<>>]
MissingList == [state |-> "missing", data |-> NoYaml]
EmptyList == [state |-> "empty", data |-> NoYaml]
MalformedList == [state |-> "malformed", data |-> NoYaml]
YamlList(top, entries) == [state |-> "data", data |-> [top |-> top, entries |-> entries]]
Entry(name, nested, keys) == [name |-> name, nested |-> nested, keys |-> keys]

SeqRange(seq) == {seq[i] : i \in 1..Len(seq)}

\* AllowlistManager.reload that takes a file it cannot parse for an empty one
reload_clearing_on_error(al, file) ==
  IF file.state \in {"missing", "empty", "malformed"}
  THEN [raised |-> FALSE, allowlist |-> EmptyDict]
  ELSE IF file.data.top # "dict" THEN [raised |-> TRUE, allowlist |-> EmptyDict]
  ELSE LET es == file.data.entries
           lists == {i \in 1..Len(es) : es[i].nested}
       IN  [raised |-> FALSE,
            allowlist |-> [d \in {es[i].name : i \in lists} |->
                             UNION {SeqRange(es[i].keys) : i \in {j \in lists : es[j].name = d}}]]

\* AllowlistManager.reload: the exception it raises, if any, and _allowlist
\* afterwards.  data.items() of a value that is no mapping raises
\* AttributeError; an entry whose value is no list is skipped.
reload(al, file) ==
  IF file.state \in {"missing", "empty"} THEN [raised |-> FALSE, allowlist |-> EmptyDict]
  ELSE IF file.state = "malformed" \/ file.data.top # "dict"
  THEN [raised |-> TRUE, allowlist |-> al]
  ELSE LET es == file.data.entries
           lists == {i \in 1..Len(es) : es[i].nested}
       IN  [raised |-> FALSE,
            allowlist |-> [d \in {es[i].name : i \in lists} |->
                             UNION {SeqRange(es[i].keys) : i \in {j \in lists : es[j].name = d}}]]

\* Blacklist._load_blacklist: _blacklist afterwards (its keys).  A sequence
\* gives the texts among its items and the keys of the mappings among them,
\* a mapping gives its keys; YAMLError is logged and nothing is assigned.
_load_blacklist(bl, file) ==
  IF file.state \in {"missing", "empty"} THEN {}
  ELSE IF file.state = "malformed" THEN bl
  ELSE LET es == file.data.entries
       IN  IF file.data.top = "dict" THEN {es[i].name : i \in 1..Len(es)}
           ELSE IF file.data.top # "list" THEN {}
           ELSE UNION {IF es[i].nested THEN SeqRange(es[i].keys) ELSE {es[i].name} :
                         i \in 1..Len(es)}

(***************************************************************************)
(* wgkex/broker/app.py: the HTTP API                                       *)
(***************************************************************************)
\* the request bodies: the dict request.get_json() returns
RequestBodies ==
  { [public_key |-> KeyA, domain |-> DomainA],
    [public_key |-> KeyB, domain |-> DomainB],
    [public_key |-> KeyShort, domain |-> DomainA],
    [public_key |-> KeyBadTail, domain |-> DomainB],
    [public_key |-> KeyA, domain |-> DomainNoPrefix],
    [public_key |-> KeyA, domain |-> DomainUnknown],
    [public_key |-> KeyB],
    [domain |-> DomainA] }

\* str(msg.get("domain"))
DomainOf(msg) == IF "domain" \in DOMAIN msg THEN msg["domain"] ELSE StrNone

from_dict_no_domain_check(msg) ==
  IF ~is_valid_wg_pubkey(msg) THEN [ok |-> FALSE]
  ELSE [ok |-> TRUE, public_key |-> msg["public_key"], domain |-> DomainOf(msg)]

\* KeyExchange.from_dict: ok is FALSE when it raises
from_dict(msg) ==
  IF ~is_valid_wg_pubkey(msg) THEN [ok |-> FALSE]
  ELSE IF ~is_valid_domain(DomainOf(msg)) THEN [ok |-> FALSE]
  ELSE [ok |-> TRUE, public_key |-> msg["public_key"], domain |-> DomainOf(msg)]

Slash == <<"/">>
TopicWireguard == <<"w","i","r","e","g","u","a","r","d">>
GatewayAll == <<"a","l","l">>

\* f"wireguard/{domain}/{gateway}"
WireguardTopic(domain, gateway) == TopicWireguard \o Slash \o domain \o Slash \o gateway

PublishTwice(log, topic, payload) ==
  log \o <<[topic |-> topic, payload |-> payload], [topic |-> topic, payload |-> payload]>>

\* mqtt.publish(topic, payload)
Publish(log, topic, payload) == Append(log, [topic |-> topic, payload |-> payload])

Handlers == {1, 2}

NoBody == <<>>
IdleHandler ==
  [pc |-> "idle", api |-> "", seq |-> 0, msg |-> EmptyDict, key |-> <<>>,
   domain |-> <<>>, best |-> None, cur |-> 0]
NoResponse ==
  [seq |-> 0, api |-> "", msg |-> EmptyDict, status |-> 0, body |-> NoBody]

\* the handler returns: the response of request hd
Respond(hd, status, body) ==
  [seq |-> hd.seq, api |-> hd.api, msg |-> hd.msg, status |-> status, body |-> body]

\* the server hands the next request to a free thread of its pool
Free(h) == http[h].pc = "idle" /\ \A g \in Handlers : g < h => http[g].pc # "idle"
Accept(h, api, msg) ==
  [IdleHandler EXCEPT !.api = api, !.seq = nreq + 1, !.msg = msg]

\* wg_api_v1_key_exchange
V1KeyExchange(h, msg) ==
  /\ Free(h)
  /\ nreq < MaxRequests
  /\ nreq' = nreq + 1
  /\ LET data == from_dict(msg)
     IN  IF ~data.ok
         THEN /\ response' = Respond(Accept(h, "v1", msg), 400, NoBody)
              /\ UNCHANGED published
         ELSE /\ published' = Publish(published,
                                      WireguardTopic(data.domain, GatewayAll),
                                      data.public_key)
              /\ response' = Respond(Accept(h, "v1", msg), 200, NoBody)
  /\ UNCHANGED <<workers_cfg, worker_metrics, worker_data, blacklist, allowlist, parker,
                 http, nbus, probe>>

\* wg_api_v2_key_exchange, up to and including mqtt.publish
V2Begin(h, msg) ==
  /\ Free(h)
  /\ nreq < MaxRequests
  /\ nreq' = nreq + 1
  /\ LET data == from_dict(msg)
     IN  IF ~data.ok
         THEN /\ response' = Respond(Accept(h, "v2", msg), 400, NoBody)
              /\ UNCHANGED <<published, http>>
         ELSE /\ published' = Publish(published,
                                      WireguardTopic(data.domain, GatewayAll),
                                      data.public_key)
              /\ http' = [http EXCEPT ![h] =
                            [Accept(h, "v2", msg) EXCEPT
                               !.pc = "select",
                               !.key = data.public_key,
                               !.domain = data.domain]]
              /\ UNCHANGED response
  /\ UNCHANGED <<workers_cfg, worker_metrics, worker_data, blacklist, allowlist, parker,
                 nbus, probe>>

\* best_worker, diff, current_peers = worker_metrics.get_best_worker(domain)
V2Select(h) ==
  /\ http[h].pc = "select"
  /\ LET best == get_best_worker(workers_cfg, worker_metrics, http[h].domain)
     IN  IF best.name = None
         THEN /\ response' = Respond(http[h], 400, NoBody)
              /\ http' = [http EXCEPT ![h] = IdleHandler]
         ELSE /\ http' = [http EXCEPT ![h].pc = "read", ![h].best = best.name]
              /\ UNCHANGED response
  /\ UNCHANGED <<workers_cfg, worker_metrics, worker_data, blacklist, allowlist, parker,
                 published, nreq, nbus, probe>>

\* current_peers_domain = worker_metrics.get(best_worker)
\*     .get_domain_metrics(domain).get(CONNECTED_PEERS_METRIC, 0)
V2Read(h) ==
  /\ http[h].pc = "read"
  /\ UNCHANGED response
  /\ http' = [http EXCEPT
                ![h].pc = "update",
                ![h].cur = DictGet(get_domain_metrics(get(worker_metrics, http[h].best),
                                                      http[h].domain),
                                   CONNECTED_PEERS_METRIC, 0)]
  /\ UNCHANGED <<workers_cfg, worker_metrics, worker_data, blacklist, allowlist, parker,
                 published, nreq, nbus, probe>>

\* worker_metrics.update(best_worker, domain, CONNECTED_PEERS_METRIC,
\*                       current_peers_domain + 1)
V2Update(h) ==
  /\ http[h].pc = "update"
  /\ worker_metrics' = update(worker_metrics, http[h].best, http[h].domain,
                              CONNECTED_PEERS_METRIC, http[h].cur + 1)
  /\ http' = [http EXCEPT ![h].pc = "lookup"]
  /\ UNCHANGED response
  /\ UNCHANGED <<workers_cfg, worker_data, blacklist, allowlist, parker,
                 published, nreq, nbus, probe>>

\* str(w_data.get("Port")) and the other w_data.get(...) of the response
NoneValue == "None"
EndpointOfLinkAsAddress(w_data) ==
  [Address    |-> DictGet(w_data, "LinkAddress", NoneValue),
   Port       |-> IF "Port" \in DOMAIN w_data THEN ToString(w_data["Port"]) ELSE "None",
   AllowedIPs |-> <<DictGet(w_data, "LinkAddress", NoneValue)>>,
   PublicKey  |-> DictGet(w_data, "PublicKey", NoneValue)]

EndpointOf(w_data) ==
  [Address    |-> DictGet(w_data, "ExternalAddress", NoneValue),
   Port       |-> IF "Port" \in DOMAIN w_data THEN ToString(w_data["Port"]) ELSE "None",
   AllowedIPs |-> <<DictGet(w_data, "LinkAddress", NoneValue)>>,
   PublicKey  |-> DictGet(w_data, "PublicKey", NoneValue)]

\* w_data = worker_data.get((best_worker, domain), None) and the response
V2Lookup(h) ==
  /\ http[h].pc = "lookup"
  /\ LET k == <<http[h].best, http[h].domain>>
     IN  IF k \notin DOMAIN worker_data
         THEN response' = Respond(http[h], 500, NoBody)
         ELSE response' = Respond(http[h], 200, EndpointOf(worker_data[k]))
  /\ http' = [http EXCEPT ![h] = IdleHandler]
  /\ UNCHANGED <<workers_cfg, worker_metrics, worker_data, blacklist, allowlist, parker,
                 published, nreq, nbus, probe>>

(***************************************************************************)
(* wgkex/broker/ipam_json.py: JSONFileIPAM.  Addresses are AddrBits wide;  *)
(* a network is written as its first address and its prefix length, and    *)
(* the text of a network in the ranges file as the pair it spells.         *)
(***************************************************************************)
\* width of an address in bits
AddrBits == 4

RECURSIVE Pow2(_)
Pow2(n) == IF n <= 0 THEN 1 ELSE 2 * Pow2(n - 1)

\* number of addresses of a network with this prefix length
SizeOf(len) == Pow2(AddrBits - len)
Net(addr, len) == [addr |-> addr, len |-> len]
\* None, where a network is expected
NoNet == Net(-1, -1)

\* ipaddress.IPv6Network(text) is strict: ValueError when host bits are set
ParsesAsNetwork(text) ==
  /\ text.len \in 0..AddrBits
  /\ text.addr \in 0..(Pow2(AddrBits) - 1)
  /\ text.addr % SizeOf(text.len) = 0

\* a.subnet_of(b): b.network_address <= a.network_address and
\* b.broadcast_address >= a.broadcast_address
subnet_of(a, b) ==
  /\ b.addr <= a.addr
  /\ b.addr + SizeOf(b.len) - 1 >= a.addr + SizeOf(a.len) - 1

\* a.overlaps(b)
overlaps(a, b) ==
  /\ a.addr <= b.addr + SizeOf(b.len) - 1
  /\ b.addr <= a.addr + SizeOf(a.len) - 1

\* list(parent_prefix.subnets(new_prefix=...)); the generator raises
\* ValueError at its first next() when the new prefix is not longer
subnets(parent, new_prefix) ==
  IF parent.len = AddrBits THEN [raised |-> FALSE, nets |-> <<parent>>]
  ELSE IF new_prefix < parent.len \/ new_prefix > AddrBits
  THEN [raised |-> TRUE, nets |-> <<>>]
  ELSE [raised |-> FALSE,
        nets |-> [i \in 1..Pow2(new_prefix - parent.len) |->
                    Net(parent.addr + (i - 1) * SizeOf(new_prefix), new_prefix)]]

\* the default parent prefix, "2001:db8:ed0::/56": the upper half of the space
DefaultParent == Net(Pow2(AddrBits - 1), 1)

\* FILE_PATH: absent, opened for writing and not yet written, or a JSON text
MissingFile == [state |-> "missing", parent |-> NoNet, ranges |-> EmptyDict]
TruncatedFile == [state |-> "truncated", parent |-> NoNet, ranges |-> EmptyDict]
JsonFile(parent, ranges) == [state |-> "json", parent |-> parent, ranges |-> ranges]

\* the try block: json.load, ranges and parent_prefix, with their defaults
\* after FileNotFoundError and JSONDecodeError
read_ranges(file) ==
  IF file.state # "json"
  THEN [raised |-> FALSE, ranges |-> EmptyDict, parent_prefix |-> DefaultParent]
  ELSE IF ~ParsesAsNetwork(file.parent)
  THEN [raised |-> TRUE, ranges |-> EmptyDict, parent_prefix |-> NoNet]
  ELSE [raised |-> FALSE, ranges |-> file.ranges, parent_prefix |-> file.parent]

MinOf(S) == CHOOSE x \in S : \A y \in S : x <= y

\* the allocation that never returns the stored range of the caller
allocate_ignoring_stored(ranges, parent_prefix, pubkey, ipv6_prefix_length) ==
  LET stored == DictGet(ranges, pubkey, NoNet)
      parsed_ranges ==
        {ranges[k] : k \in {j \in DOMAIN ranges : subnet_of(ranges[j], parent_prefix)}}
      prefixes == subnets(parent_prefix, ipv6_prefix_length)
      free == {i \in 2..Len(prefixes.nets) : prefixes.nets[i] \notin parsed_ranges}
      range6 == IF free = {} THEN stored ELSE prefixes.nets[MinOf(free)]
  IN  IF (\E k \in DOMAIN ranges : ~ParsesAsNetwork(ranges[k])) \/ prefixes.raised
      THEN [raised |-> TRUE, range6 |-> NoNet, ranges |-> ranges, write |-> FALSE]
      ELSE IF range6 = NoNet
      THEN [raised |-> FALSE, range6 |-> NoNet, ranges |-> ranges, write |-> FALSE]
      ELSE [raised |-> FALSE, range6 |-> range6,
            ranges |-> DictSet(ranges, pubkey, range6), write |-> TRUE]

\* the allocation that takes the first candidate, assigned or not
allocate_first_candidate(ranges, parent_prefix, pubkey, ipv6_prefix_length) ==
  LET stored == DictGet(ranges, pubkey, NoNet)
      kept == stored # NoNet /\ ParsesAsNetwork(stored) /\ subnet_of(stored, parent_prefix)
      prefixes == subnets(parent_prefix, ipv6_prefix_length)
      free == 2..Len(prefixes.nets)
      range6 == IF kept \/ free = {} THEN stored ELSE prefixes.nets[MinOf(free)]
  IN  IF stored # NoNet /\ ~ParsesAsNetwork(stored)
      THEN [raised |-> TRUE, range6 |-> NoNet, ranges |-> ranges, write |-> FALSE]
      ELSE IF kept
      THEN [raised |-> FALSE, range6 |-> range6, ranges |-> ranges, write |-> FALSE]
      ELSE IF (\E k \in DOMAIN ranges : ~ParsesAsNetwork(ranges[k])) \/ prefixes.raised
      THEN [raised |-> TRUE, range6 |-> NoNet, ranges |-> ranges, write |-> FALSE]
      ELSE IF range6 = NoNet
      THEN [raised |-> FALSE, range6 |-> NoNet, ranges |-> ranges, write |-> FALSE]
      ELSE [raised |-> FALSE, range6 |-> range6,
            ranges |-> DictSet(ranges, pubkey, range6), write |-> TRUE]

\* range6 = ranges.get(pubkey, None), the search for a free candidate, and
\* ranges[pubkey] = str(range6)
allocate(ranges, parent_prefix, pubkey, ipv6_prefix_length) ==
  LET stored == DictGet(ranges, pubkey, NoNet)
      kept == stored # NoNet /\ ParsesAsNetwork(stored) /\ subnet_of(stored, parent_prefix)
      parsed_ranges ==
        {ranges[k] : k \in {j \in DOMAIN ranges : subnet_of(ranges[j], parent_prefix)}}
      prefixes == subnets(parent_prefix, ipv6_prefix_length)
      free == {i \in 2..Len(prefixes.nets) : prefixes.nets[i] \notin parsed_ranges}
      range6 == IF kept \/ free = {} THEN stored ELSE prefixes.nets[MinOf(free)]
  IN  IF stored # NoNet /\ ~ParsesAsNetwork(stored)
      THEN [raised |-> TRUE, range6 |-> NoNet, ranges |-> ranges, write |-> FALSE]
      ELSE IF kept
      THEN [raised |-> FALSE, range6 |-> range6, ranges |-> ranges, write |-> FALSE]
      ELSE IF (\E k \in DOMAIN ranges : ~ParsesAsNetwork(ranges[k])) \/ prefixes.raised
      THEN [raised |-> TRUE, range6 |-> NoNet, ranges |-> ranges, write |-> FALSE]
      ELSE IF range6 = NoNet
      THEN [raised |-> FALSE, range6 |-> NoNet, ranges |-> ranges, write |-> FALSE]
      ELSE [raised |-> FALSE, range6 |-> range6,
            ranges |-> DictSet(ranges, pubkey, range6), write |-> TRUE]

\* JSONFileIPAM.get_or_allocate_prefix, run without interruption: the tuple
\* it returns or the exception it raises, the file it leaves, and the parent
\* prefix it read
get_or_allocate_prefix(file, pubkey, ipv4, ipv6, ipv6_prefix_length) ==
  IF ipv4 THEN [raised |-> TRUE, value |-> <<>>, file |-> file, parent |-> NoNet]
  ELSE IF ~ipv6
  THEN [raised |-> FALSE, value |-> <<NoNet, NoNet, <<>>>>, file |-> file, parent |-> NoNet]
  ELSE LET rd == read_ranges(file)
           al == allocate(rd.ranges, rd.parent_prefix, pubkey, ipv6_prefix_length)
       IN  IF rd.raised \/ al.raised
           THEN [raised |-> TRUE, value |-> <<>>, file |-> file, parent |-> rd.parent_prefix]
           ELSE [raised |-> FALSE, value |-> <<NoNet, al.range6, <<>>>>,
                 file |-> IF al.write THEN JsonFile(rd.parent_prefix, al.ranges) ELSE file,
                 parent |-> rd.parent_prefix]

\* a handler thread that is not inside get_or_allocate_prefix
IdleCall ==
  [pc |-> "idle", pubkey |-> <<>>, ranges |-> EmptyDict, parent_prefix |-> NoNet,
   range6 |-> NoNet]
NoCall == [key |-> <<>>, raised |-> FALSE, range6 |-> NoNet, parent |-> NoNet]

\* the state of the v3 API when the broker starts: config.parker (prefix
\* length, xlat), no ranges file yet, parker_worker_metrics, parker_worker_data
ParkerAtStart ==
  [file |-> MissingFile, call |-> [h \in Handlers |-> IdleCall], returned |-> {},
   last |-> NoCall, length |-> AddrBits - 1, xlat |-> TRUE,
   worker_metrics |-> <<>>, worker_data |-> EmptyDict]

\* get_or_allocate_prefix returns to its caller or raises: the outcome is
\* kept as the last one, a returned prefix with those returned so far
Returns(st, pubkey, raised, range6, parent) ==
  [st EXCEPT
     !.last = [key |-> pubkey, raised |-> raised, range6 |-> range6, parent |-> parent],
     !.returned = IF raised \/ range6 = NoNet THEN @
                  ELSE @ \cup {[key |-> pubkey, net |-> range6]}]

NoCallUnderWay == \A h \in Handlers : parker.call[h].pc = "idle"

\* one call of get_or_allocate_prefix(pubkey, False, True, 0, length) that no
\* other call overlaps
IpamCall(pubkey) ==
  /\ NoCallUnderWay
  /\ LET r == get_or_allocate_prefix(parker.file, pubkey, FALSE, TRUE, parker.length)
     IN  parker' = Returns([parker EXCEPT !.file = r.file], pubkey, r.raised,
                           IF r.raised THEN NoNet ELSE r.value[2], r.parent)
  /\ UNCHANGED <<workers_cfg, worker_metrics, worker_data, blacklist, allowlist,
                 published, http, response, nreq, nbus, probe, worker_vars>>

\* a handler thread enters get_or_allocate_prefix and reads the file
IpamRead(h, pubkey) ==
  /\ parker.call[h].pc = "idle"
  /\ LET rd == read_ranges(parker.file)
     IN  IF rd.raised
         THEN parker' = Returns(parker, pubkey, TRUE, NoNet, rd.parent_prefix)
         ELSE parker' = [parker EXCEPT !.call[h] =
                           [pc |-> "read", pubkey |-> pubkey, ranges |-> rd.ranges,
                            parent_prefix |-> rd.parent_prefix, range6 |-> NoNet]]
  /\ UNCHANGED <<workers_cfg, worker_metrics, worker_data, blacklist, allowlist,
                 published, http, response, nreq, nbus, probe, worker_vars>>

\* the thread looks for its range and, with a new one, opens the file for
\* writing, which empties it
IpamOpen(h) ==
  /\ parker.call[h].pc = "read"
  /\ LET c == parker.call[h]
         al == allocate(c.ranges, c.parent_prefix, c.pubkey, parker.length)
     IN  IF al.raised \/ ~al.write
         THEN parker' = Returns([parker EXCEPT !.call[h] = IdleCall], c.pubkey,
                                al.raised, al.range6, c.parent_prefix)
         ELSE parker' = [parker EXCEPT
                           !.file = TruncatedFile,
                           !.call[h] = [c EXCEPT !.pc = "dump", !.ranges = al.ranges,
                                                 !.range6 = al.range6]]
  /\ UNCHANGED <<workers_cfg, worker_metrics, worker_data, blacklist, allowlist,
                 published, http, response, nreq, nbus, probe, worker_vars>>

\* json.dump of the parent prefix and the thread's ranges, and the return
IpamDump(h) ==
  /\ parker.call[h].pc = "dump"
  /\ LET c == parker.call[h]
     IN  parker' = Returns([parker EXCEPT !.file = JsonFile(c.parent_prefix, c.ranges),
                                          !.call[h] = IdleCall],
                           c.pubkey, FALSE, c.range6, c.parent_prefix)
  /\ UNCHANGED <<workers_cfg, worker_metrics, worker_data, blacklist, allowlist,
                 published, http, response, nreq, nbus, probe, worker_vars>>

(***************************************************************************)
(* wgkex/broker/app.py, wgkex/broker/parker.py: the v3 API                 *)
(***************************************************************************)
ParkerDomain == <<"p","a","r","k","e","r">>
\* f"parker/wireguard/{gateway}" with gateway "all"
ParkerTopic == ParkerDomain \o Slash \o TopicWireguard \o Slash \o GatewayAll

\* request.args
V3Queries ==
  { [pubkey |-> KeyA], [pubkey |-> KeyB], [pubkey |-> KeyC],
    [pubkey |-> KeyShort], [nonce |-> <<"n">>] }

\* ParkerQuery.from_dict: is_valid_wg_pubkey(data.get("pubkey", "")) raises
\* for a text that is no key
ParkerQuery_from_dict(data) ==
  IF MatchesPubkeyPattern(DictGet(data, "pubkey", <<>>))
  THEN [ok |-> TRUE, pubkey |-> data["pubkey"]]
  ELSE [ok |-> FALSE, pubkey |-> <<>>]

\* wg_api_v3_key_exchange from mqtt.publish on: the broadcast, the choice of
\* a worker in parker_worker_metrics, and the response
V3Respond(hd, st, pubkey, full_range6) ==
  LET best == get_best_worker(workers_cfg, st.worker_metrics, ParkerDomain)
      current_peers ==
        DictGet(get_domain_metrics(get(st.worker_metrics, best.name), ParkerDomain),
                CONNECTED_PEERS_METRIC, 0)
      updated == update(st.worker_metrics, best.name, ParkerDomain,
                        CONNECTED_PEERS_METRIC, current_peers + 1)
  IN  /\ published' = Publish(published, ParkerTopic,
                              [PublicKey |-> pubkey, Range6 |-> full_range6])
      /\ IF best.name = None
         THEN parker' = st /\ response' = Respond(hd, 400, NoBody)
         ELSE /\ parker' = [st EXCEPT !.worker_metrics = updated]
              /\ IF best.name \notin DOMAIN st.worker_data
                 THEN response' = Respond(hd, 500, NoBody)
                 ELSE response' = Respond(hd, 200, [range6 |-> full_range6])

\* wg_api_v3_key_exchange that puts the key on the bus before it asks the IPAM
V3KeyExchange_publishing_first(h, args) ==
  /\ Free(h)
  /\ nreq < MaxRequests
  /\ nreq' = nreq + 1
  /\ LET hd == Accept(h, "v3", args)
         req_data == ParkerQuery_from_dict(args)
         r == get_or_allocate_prefix(parker.file, req_data.pubkey, ~parker.xlat, TRUE,
                                     parker.length)
     IN  IF ~req_data.ok
         THEN /\ response' = Respond(hd, 400, NoBody)
              /\ UNCHANGED <<parker, published>>
         ELSE /\ published' = Publish(published, ParkerTopic,
                                      [PublicKey |-> req_data.pubkey, Range6 |-> NoNet])
              /\ parker' = Returns([parker EXCEPT !.file = r.file], req_data.pubkey,
                                   r.raised, IF r.raised THEN NoNet ELSE r.value[2],
                                   r.parent)
              /\ response' = Respond(hd, 500, NoBody)
  /\ UNCHANGED <<workers_cfg, worker_metrics, worker_data, blacklist, allowlist,
                 http, nbus, probe, worker_vars>>

\* wg_api_v3_key_exchange, with parker enabled and JSONFileIPAM loaded.  The
\* call's result is assigned to two targets inside the try block, so a tuple
\* of another length raises ValueError there and is answered like an
\* exception of the IPAM.
V3KeyExchange(h, args) ==
  /\ Free(h)
  /\ nreq < MaxRequests
  /\ nreq' = nreq + 1
  /\ LET hd == Accept(h, "v3", args)
         req_data == ParkerQuery_from_dict(args)
         r == get_or_allocate_prefix(parker.file, req_data.pubkey, ~parker.xlat, TRUE,
                                     parker.length)
         st == Returns([parker EXCEPT !.file = r.file], req_data.pubkey, r.raised,
                       IF r.raised THEN NoNet ELSE r.value[2], r.parent)
     IN  IF ~req_data.ok
         THEN /\ response' = Respond(hd, 400, NoBody)
              /\ UNCHANGED <<parker, published>>
         ELSE IF r.raised \/ Len(r.value) # 2
         THEN /\ response' = Respond(hd, 500, NoBody)
              /\ parker' = st
              /\ UNCHANGED published
         ELSE IF r.value[2] = NoNet
         THEN /\ response' = Respond(hd, 500, NoBody)
              /\ parker' = st
              /\ UNCHANGED published
         ELSE V3Respond(hd, st, req_data.pubkey, r.value[2])
  /\ UNCHANGED <<workers_cfg, worker_metrics, worker_data, blacklist, allowlist,
                 http, nbus, probe, worker_vars>>

(***************************************************************************)
(* wgkex/broker/app.py: the handlers of the bus subscriptions              *)
(***************************************************************************)
BusDomains == {DomainA, DomainB, DomainUnknown}
BusWorkers == WorkerNames \cup {""}
MetricPayloads == -1 .. MaxPeers
StatusPayloads == {0, 1}

\* handle_mqtt_message_metrics, on wireguard-metrics/<domain>/<worker>/<metric>
handle_mqtt_message_metrics(domain, worker, metric, data) ==
  /\ IF ~is_valid_domain(domain) THEN UNCHANGED worker_metrics
     ELSE IF worker = "" \/ metric = "" THEN UNCHANGED worker_metrics
     ELSE worker_metrics' = update(worker_metrics, worker, domain, metric, data)
  /\ UNCHANGED <<workers_cfg, worker_data, blacklist, allowlist, parker, published,
                 http, response, nreq>>

handle_mqtt_message_status_above_one(worker, status) ==
  /\ IF status < 2 /\ is_online(get(worker_metrics, worker), <<>>)
     THEN worker_metrics' = set_offline(worker_metrics, worker)
     ELSE IF status >= 2 /\ ~is_online(get(worker_metrics, worker), <<>>)
     THEN worker_metrics' = set_online(worker_metrics, worker)
     ELSE UNCHANGED worker_metrics
  /\ UNCHANGED <<workers_cfg, worker_data, blacklist, allowlist, parker, published,
                 http, response, nreq>>

\* handle_mqtt_message_status, on wireguard-worker/<worker>/status
handle_mqtt_message_status(worker, status) ==
  /\ IF status < 1 /\ is_online(get(worker_metrics, worker), <<>>)
     THEN worker_metrics' = set_offline(worker_metrics, worker)
     ELSE IF status >= 1 /\ ~is_online(get(worker_metrics, worker), <<>>)
     THEN worker_metrics' = set_online(worker_metrics, worker)
     ELSE UNCHANGED worker_metrics
  /\ UNCHANGED <<workers_cfg, worker_data, blacklist, allowlist, parker, published,
                 http, response, nreq>>

\* what a worker publishes on wireguard-worker/<worker>/<domain>/data,
\* after json.loads
PortOf(domain) == IF domain = DomainA THEN 40001 ELSE 40002
WgData(worker, domain) ==
  [kind |-> "dict",
   value |-> [ExternalAddress |-> <<"gw", worker>>,
              Port |-> PortOf(domain),
              PublicKey |-> <<"pk", worker, domain>>,
              LinkAddress |-> <<"fe80", worker, domain>>]]
ListData == [kind |-> "list", value |-> <<>>]
DataPayloads(worker, domain) == {WgData(worker, domain), ListData}

\* handle_mqtt_message_data
handle_mqtt_message_data(worker, domain, data) ==
  /\ IF ~is_valid_domain(domain) THEN UNCHANGED worker_data
     ELSE IF data.kind # "dict" THEN UNCHANGED worker_data
     ELSE worker_data' = DictSet(worker_data, <<worker, domain>>, data.value)
  /\ UNCHANGED <<workers_cfg, worker_metrics, blacklist, allowlist, parker, published,
                 http, response, nreq>>

(***************************************************************************)
(* wgkex/worker: mqtt.py, msg_queue.py, netlink.py                         *)
(***************************************************************************)
\* re.search(r".*/" + domain_prefix + r"(\w+)/", topic) at the slash in
\* position i: the position of the last character of the group, 0 for no match
GroupEnd(topic, prefix, i) ==
  LET start == i + Len(prefix) + 1
      ends == { j \in start..(Len(topic) - 1) :
                  /\ \A k \in start..j : topic[k] \in WordChars
                  /\ topic[j + 1] = "/" }
  IN  IF /\ topic[i] = "/"
         /\ start <= Len(topic)
         /\ SubSeq(topic, i + 1, start - 1) = prefix
         /\ ends # {}
      THEN CHOOSE j \in ends : TRUE
      ELSE 0

\* the group of the match: ".*" is greedy, so the last slash that matches
SearchPrefix(topic, prefix) ==
  LET at == { i \in 1..Len(topic) : GroupEnd(topic, prefix, i) # 0 }
  IN  IF at = {} THEN <<>>
      ELSE LET i == CHOOSE i \in at : \A k \in at : k <= i
           IN  SubSeq(topic, i + Len(prefix) + 1, GroupEnd(topic, prefix, i))

RECURSIVE FirstMatch(_, _, _)
FirstMatch(topic, prefixes, n) ==
  IF n > Len(prefixes) THEN <<>>
  ELSE IF SearchPrefix(topic, prefixes[n]) # <<>> THEN SearchPrefix(topic, prefixes[n])
  ELSE FirstMatch(topic, prefixes, n + 1)

TopicDomainWithPrefix(topic) ==
  LET suffix == FirstMatch(topic, DomainPrefixes, 1)
  IN  IF suffix = <<>> THEN <<>> ELSE DomainPrefixes[1] \o suffix

\* the domain on_message_wireguard reads off the topic: the part after the
\* prefix; <<>> when it raises ValueError
TopicDomain(topic) == FirstMatch(topic, DomainPrefixes, 1)

\* UniqueQueue.put
QueuePut(queue, item) == queue \cup {item}

\* on_message_wireguard: q.put((domain, payload))
on_message_wireguard(w, message) ==
  LET domain == TopicDomain(message.topic)
  IN  IF domain = <<>> THEN UNCHANGED q
      ELSE q' = [q EXCEPT ![w] = QueuePut(@, <<domain, message.payload>>)]

\* WireGuardClient.wg_interface, .vx_interface, .lladdr
wg_interface(client) == <<"w","g","-">> \o client.domain
vx_interface(client) == <<"v","x","-">> \o client.domain
lladdr(client) == <<"lladdr", client.public_key>>

NoPeers == [wg |-> {}, route |-> {}, fdb |-> {}]

\* mqtt.Client before connect(): no will, no network loop, no subscription,
\* no CONNACK handed to on_connect yet
NoClient ==
  [started |-> FALSE, connected |-> FALSE, will |-> <<>>, subs |-> {}, connack |-> -1]

\* the domains a worker is configured for: those main() accepts
WorkerDomains == <<DomainA, DomainB>>
WorkerDomainSet == { WorkerDomains[i] : i \in 1..Len(WorkerDomains) }

\* where a thread stands inside link_handler: the clients it still has to
\* handle and the netlink operation that comes next for the first of them
NoLink == [clients |-> <<>>, next |-> ""]
NoLinks == [installer |-> NoLink, flusher |-> [d \in WorkerDomainSet |-> NoLink]]

\* the background threads of a worker when main() calls mqtt.connect: the
\* installer and a flusher per domain run; mark_offline_on_exit and the
\* metrics loop of each domain are started by connect()
ThreadsAtStart ==
  [installer |-> "run",
   mark_offline |-> "unstarted",
   metrics |-> [d \in WorkerDomainSet |-> "unstarted"],
   flusher |-> [d \in WorkerDomainSet |-> "sleep"],
   link |-> NoLinks]

\* update_wireguard_peer: wg.set(client.wg_interface, peer=wg_peer)
update_wireguard_peer(kernel, client) ==
  LET peer == [interface |-> wg_interface(client), public_key |-> client.public_key,
               allowed_ips |-> lladdr(client)]
  IN  [kernel EXCEPT !.wg =
         IF client.remove
         THEN { p \in @ : ~(p.interface = peer.interface /\ p.public_key = peer.public_key) }
         ELSE { p \in @ : ~(p.interface = peer.interface /\ p.public_key = peer.public_key) }
                \cup {peer}]

\* route_handler: ip.route("del" if client.remove else "replace", ...)
route_handler(kernel, client) ==
  LET route == [dst |-> lladdr(client), oif |-> wg_interface(client)]
  IN  [kernel EXCEPT !.route = IF client.remove THEN @ \ {route} ELSE @ \cup {route}]

\* bridge_fdb_handler: ip.fdb("del" if client.remove else "append", ...)
bridge_fdb_handler(kernel, client) ==
  LET entry == [ifname |-> vx_interface(client), dst |-> lladdr(client),
                via |-> wg_interface(client)]
  IN  [kernel EXCEPT !.fdb = IF client.remove THEN @ \ {entry} ELSE @ \cup {entry}]

\* the netlink operations of one link_handler call that can raise
NetlinkOperations == {"Wireguard", "Route", "Bridge FDB"}

\* link_handler when the operations in failing raise: only the exception of
\* route_handler is caught; the kernel it leaves and whether it raised
link_handler_run(kernel, client, failing) ==
  IF "Wireguard" \in failing THEN [kernel |-> kernel, raised |-> TRUE]
  ELSE LET k1 == update_wireguard_peer(kernel, client)
           k2 == IF "Route" \in failing THEN k1 ELSE route_handler(k1, client)
       IN  IF "Bridge FDB" \in failing THEN [kernel |-> k2, raised |-> TRUE]
           ELSE [kernel |-> bridge_fdb_handler(k2, client), raised |-> FALSE]

\* link_handler, every netlink operation succeeding
link_handler(kernel, client) == link_handler_run(kernel, client, {}).kernel

\* the dict link_handler builds: the value of an operation that returned,
\* the exception of route_handler when it raised
ResultsOf(ops, failing) ==
  [op \in ops |-> IF op \in failing THEN "exception" ELSE "dict"]

link_handler_calls_fdb_first(kernel, client, failing) ==
  LET run == link_handler_run(kernel, client, failing)
  IN  IF "Bridge FDB" \in failing
      THEN [kernel |-> run.kernel, raised |-> TRUE, attempted |-> <<"Bridge FDB">>,
            results |-> EmptyDict]
      ELSE IF "Wireguard" \in failing
      THEN [kernel |-> run.kernel, raised |-> TRUE,
            attempted |-> <<"Bridge FDB", "Wireguard">>,
            results |-> ResultsOf({"Bridge FDB"}, failing)]
      ELSE [kernel |-> run.kernel, raised |-> FALSE,
            attempted |-> <<"Bridge FDB", "Wireguard", "Route">>,
            results |-> ResultsOf(NetlinkOperations, failing)]

\* link_handler when the operations in failing raise: the kernel it leaves,
\* the operations it called in their order, and the dict it returns unless
\* it raised
link_handler_calls(kernel, client, failing) ==
  LET run == link_handler_run(kernel, client, failing)
  IN  IF "Wireguard" \in failing
      THEN [kernel |-> run.kernel, raised |-> TRUE, attempted |-> <<"Wireguard">>,
            results |-> EmptyDict]
      ELSE IF "Bridge FDB" \in failing
      THEN [kernel |-> run.kernel, raised |-> TRUE,
            attempted |-> <<"Wireguard", "Route", "Bridge FDB">>,
            results |-> ResultsOf({"Wireguard", "Route"}, failing)]
      ELSE [kernel |-> run.kernel, raised |-> FALSE,
            attempted |-> <<"Wireguard", "Route", "Bridge FDB">>,
            results |-> ResultsOf(NetlinkOperations, failing)]

\* the index of the first occurrence of sep in s at or after from; 0 if none
RECURSIVE FindFrom(_, _, _)
FindFrom(s, sep, from) ==
  IF from + Len(sep) - 1 > Len(s) THEN 0
  ELSE IF SubSeq(s, from, from + Len(sep) - 1) = sep THEN from
  ELSE FindFrom(s, sep, from + 1)

\* whether s.split(sep)[1] raises IndexError: sep does not occur in s
SplitHasNoSecond(s, sep) == FindFrom(s, sep, 1) = 0

\* s.split(sep)[1]: what stands between the first and the second sep
SplitSecond(s, sep) ==
  LET i == FindFrom(s, sep, 1)
      j == FindFrom(s, sep, i + Len(sep))
  IN  SubSeq(s, i + Len(sep), IF j = 0 THEN Len(s) ELSE j - 1)

RECURSIVE CleanedDomain(_, _, _)
CleanedDomain(domain, prefixes, n) ==
  IF n > Len(prefixes) THEN <<>>
  ELSE IF SplitHasNoSecond(domain, prefixes[n]) THEN CleanedDomain(domain, prefixes, n + 1)
  ELSE SplitSecond(domain, prefixes[n])

\* wg_interface_name: "wg-" and the domain without its prefix; <<>> when it
\* raises ValueError
wg_interface_name(domain) ==
  LET cleaned_domain == CleanedDomain(domain, DomainPrefixes, 1)
  IN  IF cleaned_domain = <<>> THEN <<>> ELSE <<"w","g","-">> \o cleaned_domain

\* Config.key_whitelist: the keys the flusher never removes
key_whitelist == <<KeyB>>

\* hours without a handshake after which a peer is stale
_PEER_TIMEOUT_HOURS == 3

find_stale_wireguard_clients_no_whitelist(kernel, shakes, iface, now) ==
  { p.public_key : p \in { x \in kernel.wg :
       /\ x.interface = iface
       /\ x \in DOMAIN shakes
       /\ shakes[x] < now - _PEER_TIMEOUT_HOURS * 3600 } }

find_stale_wireguard_clients_whitelist_after_epoch(kernel, shakes, iface, now) ==
  { p.public_key : p \in { x \in kernel.wg :
       /\ x.interface = iface
       /\ x \in DOMAIN shakes
       /\ shakes[x] < now - _PEER_TIMEOUT_HOURS * 3600
       /\ shakes[x] > 0 => \A i \in 1..Len(key_whitelist) : key_whitelist[i] # x.public_key } }

\* find_stale_wireguard_clients: the keys of the peers of the interface that
\* have a last handshake time, earlier than three hours before now, and are
\* not on the whitelist
find_stale_wireguard_clients(kernel, shakes, iface, now) ==
  { p.public_key : p \in { x \in kernel.wg :
       /\ x.interface = iface
       /\ x \in DOMAIN shakes
       /\ shakes[x] < now - _PEER_TIMEOUT_HOURS * 3600
       /\ \A i \in 1..Len(key_whitelist) : key_whitelist[i] # x.public_key } }

\* the orders in which the kernel can list a set of keys
Orders(keys) ==
  { o \in [1..Cardinality(keys) -> keys] : \A i, j \in DOMAIN o : o[i] = o[j] => i = j }

\* what can go wrong in one run of wg_flush_stale_peers: nothing (at 0, no
\* operation), the dump of the peers (at 0), or netlink operations of the
\* link_handler call number at
NoFailure == [at |-> 0, ops |-> {}]
DumpFailure == [at |-> 0, ops |-> {"dump"}]
Failures ==
  {NoFailure, DumpFailure}
    \cup { [at |-> k, ops |-> f] : k \in 1..2, f \in (SUBSET NetlinkOperations) \ {{}} }

\* the list comprehension of link_handler calls over the stale clients, from
\* call n on: the kernel it leaves, the calls made, whether it raised
RECURSIVE HandleStale(_, _, _, _, _)
HandleStale(kernel, domain, stale, n, failure) ==
  IF n > Len(stale) THEN [kernel |-> kernel, handled |-> <<>>, raised |-> FALSE]
  ELSE LET wg_client == [public_key |-> stale[n], domain |-> domain, remove |-> TRUE]
           run == link_handler_run(kernel, wg_client,
                                   IF failure.at = n THEN failure.ops ELSE {})
           rest == HandleStale(run.kernel, domain, stale, n + 1, failure)
       IN  IF run.raised
           THEN [kernel |-> run.kernel, handled |-> <<wg_client>>, raised |-> TRUE]
           ELSE [kernel |-> rest.kernel, handled |-> <<wg_client>> \o rest.handled,
                 raised |-> rest.raised]

\* wg_flush_stale_peers(domain) with the stale peers listed in the order stale
wg_flush_stale_peers(kernel, domain, stale, failure) ==
  IF failure = DumpFailure THEN [kernel |-> kernel, handled |-> <<>>, raised |-> TRUE]
  ELSE HandleStale(kernel, domain, stale, 1, failure)

\* the peers of a kernel that still have a last handshake time
ShakesOf(kernel, shakes) ==
  [p \in (DOMAIN shakes) \cap kernel.wg |-> shakes[p]]

\* flush_workers(domain): time.sleep(_CLEANUP_TIME) returns and one run of
\* wg_flush_stale_peers follows; an exception is logged and the loop goes on
flush_workers(w, d, now, failure) ==
  /\ threads[w].flusher[d] = "sleep"
  /\ LET domain == CleanedDomain(d, DomainPrefixes, 1)
         keys == find_stale_wireguard_clients(netlink[w], handshakes[w],
                                              <<"w","g","-">> \o domain, now)
     IN  \E stale \in Orders(keys) :
           LET run == wg_flush_stale_peers(netlink[w], domain, stale, failure)
           IN  /\ netlink' = [netlink EXCEPT ![w] = run.kernel]
               /\ handshakes' = [handshakes EXCEPT ![w] = ShakesOf(run.kernel, @)]
               /\ calls' = [calls EXCEPT ![w] = @ \o run.handled]
               /\ threads' = [threads EXCEPT ![w].flusher[d] =
                                IF run.raised THEN "except" ELSE "sleep"]
  /\ UNCHANGED <<rx, q, workers_cfg, worker_metrics, worker_data, blacklist, allowlist, parker,
                 published, http, response, nreq, nbus, mqtt_client, exit_event, bus, brx>>

\* flush_workers comes back to time.sleep from its except clause
flush_workers_again(w, d) ==
  /\ threads[w].flusher[d] = "except"
  /\ threads' = [threads EXCEPT ![w].flusher[d] = "sleep"]
  /\ UNCHANGED <<queue_vars, broker_vars, mqtt_client, exit_event, bus, brx, calls, handshakes>>

\* the bus hands worker w the next message published on wireguard/<domain>/+
Deliver(w) ==
  /\ rx[w] < Len(published)
  /\ rx' = [rx EXCEPT ![w] = @ + 1]
  /\ on_message_wireguard(w, published[rx[w] + 1])
  /\ UNCHANGED <<netlink, broker_vars, life_vars>>

\* the thread of pick_from_queue: "run" until an exception ends it
InstallerRuns(w) == threads[w].installer = "run"

pick_from_queue_run_keeping_item(w, failing) ==
  /\ InstallerRuns(w)
  /\ q[w] # {}
  /\ \E item \in q[w] :
       LET wg_client == [public_key |-> item[2], domain |-> item[1], remove |-> FALSE]
           run == link_handler_run(netlink[w], wg_client, failing)
       IN  /\ q' = q
           /\ netlink' = [netlink EXCEPT ![w] = run.kernel]
           /\ calls' = [calls EXCEPT ![w] = Append(@, wg_client)]
           /\ threads' = [threads EXCEPT ![w].installer =
                            IF run.raised THEN "dead" ELSE "run"]
  /\ UNCHANGED <<rx, broker_vars, mqtt_client, exit_event, bus, brx, handshakes>>

\* one round of pick_from_queue with a non-empty queue: q.get() takes any
\* item; the operations in failing raise inside link_handler
pick_from_queue_run(w, failing) ==
  /\ InstallerRuns(w)
  /\ q[w] # {}
  /\ \E item \in q[w] :
       LET wg_client == [public_key |-> item[2], domain |-> item[1], remove |-> FALSE]
           run == link_handler_run(netlink[w], wg_client, failing)
       IN  /\ q' = [q EXCEPT ![w] = @ \ {item}]
           /\ netlink' = [netlink EXCEPT ![w] = run.kernel]
           /\ calls' = [calls EXCEPT ![w] = Append(@, wg_client)]
           /\ threads' = [threads EXCEPT ![w].installer =
                            IF run.raised THEN "dead" ELSE "run"]
  /\ UNCHANGED <<rx, broker_vars, mqtt_client, exit_event, bus, brx, handshakes>>

\* one round of pick_from_queue, every netlink operation succeeding
pick_from_queue(w) == pick_from_queue_run(w, {})

(***************************************************************************)
(* link_handler one netlink operation at a time: the installer thread and  *)
(* the flusher threads of a worker share its kernel and take no lock.      *)
(***************************************************************************)
\* the operation that follows op in link_handler; "" after the last one
NextOperation(op) ==
  IF op = "Wireguard" THEN "Route" ELSE IF op = "Route" THEN "Bridge FDB" ELSE ""

\* one netlink operation of link_handler for client
NetlinkOperation(kernel, client, op) ==
  IF op = "Wireguard" THEN update_wireguard_peer(kernel, client)
  ELSE IF op = "Route" THEN route_handler(kernel, client)
  ELSE bridge_fdb_handler(kernel, client)

\* the thread has done the operation next of its first client
LinkAfter(link) ==
  IF NextOperation(link.next) # "" THEN [link EXCEPT !.next = NextOperation(link.next)]
  ELSE IF Len(link.clients) > 1 THEN [clients |-> Tail(link.clients), next |-> "Wireguard"]
  ELSE NoLink

\* pick_from_queue: q.get() and the call of link_handler, up to its first
\* netlink operation
pick_from_queue_get(w) ==
  /\ InstallerRuns(w)
  /\ threads[w].link.installer = NoLink
  /\ q[w] # {}
  /\ \E item \in q[w] :
       LET wg_client == [public_key |-> item[2], domain |-> item[1], remove |-> FALSE]
       IN  /\ q' = [q EXCEPT ![w] = @ \ {item}]
           /\ calls' = [calls EXCEPT ![w] = Append(@, wg_client)]
           /\ threads' = [threads EXCEPT ![w].link.installer =
                            [clients |-> <<wg_client>>, next |-> "Wireguard"]]
  /\ UNCHANGED <<rx, netlink, broker_vars, mqtt_client, exit_event, bus, brx, handshakes>>

\* the next netlink operation of the installer's link_handler call
pick_from_queue_operation(w) ==
  /\ threads[w].link.installer # NoLink
  /\ LET link == threads[w].link.installer
         kernel == NetlinkOperation(netlink[w], Head(link.clients), link.next)
     IN  /\ netlink' = [netlink EXCEPT ![w] = kernel]
         /\ handshakes' = [handshakes EXCEPT ![w] = ShakesOf(kernel, @)]
         /\ threads' = [threads EXCEPT ![w].link.installer = LinkAfter(link)]
  /\ UNCHANGED <<rx, q, broker_vars, mqtt_client, exit_event, bus, brx, calls>>

\* flush_workers wakes up: wg_flush_stale_peers dumps the peers and builds
\* the list of the stale clients
wg_flush_stale_peers_find(w, d, now) ==
  /\ threads[w].flusher[d] = "sleep"
  /\ threads[w].link.flusher[d] = NoLink
  /\ LET domain == CleanedDomain(d, DomainPrefixes, 1)
         keys == find_stale_wireguard_clients(netlink[w], handshakes[w],
                                              <<"w","g","-">> \o domain, now)
     IN  /\ keys # {}
         /\ \E stale \in Orders(keys) :
              threads' = [threads EXCEPT ![w].link.flusher[d] =
                [clients |-> [i \in 1..Len(stale) |->
                                [public_key |-> stale[i], domain |-> domain,
                                 remove |-> TRUE]],
                 next |-> "Wireguard"]]
  /\ UNCHANGED <<queue_vars, broker_vars, mqtt_client, exit_event, bus, brx, calls,
                 handshakes>>

\* the next netlink operation of the flusher's link_handler calls
wg_flush_stale_peers_operation(w, d) ==
  /\ threads[w].link.flusher[d] # NoLink
  /\ LET link == threads[w].link.flusher[d]
         kernel == NetlinkOperation(netlink[w], Head(link.clients), link.next)
     IN  /\ netlink' = [netlink EXCEPT ![w] = kernel]
         /\ handshakes' = [handshakes EXCEPT ![w] = ShakesOf(kernel, @)]
         /\ calls' = [calls EXCEPT ![w] =
                        IF link.next = "Wireguard" THEN Append(@, Head(link.clients))
                        ELSE @]
         /\ threads' = [threads EXCEPT ![w].link.flusher[d] = LinkAfter(link)]
  /\ UNCHANGED <<rx, q, broker_vars, mqtt_client, exit_event, bus, brx>>

(***************************************************************************)
(* wgkex/worker/mqtt.py: the bus client of a worker and its threads        *)
(***************************************************************************)
\* int(datetime.now().timestamp()) at the calls that read the clock
Clocks == { 4 * 3600 + k : k \in 0..1 }

\* the age in seconds below which a handshake counts as a connected peer
ConnectedWindow == 3 * 60

\* get_connected_peers_count: the peers of the interface whose last
\* handshake is later than three minutes before now
get_connected_peers_count(kernel, shakes, iface, now) ==
  Cardinality({ p \in kernel.wg :
                  /\ p.interface = iface
                  /\ p \in DOMAIN shakes
                  /\ shakes[p] > now - ConnectedWindow })

\* the messages a worker publishes; by names the code that published it,
\* delivered tells whether it reached the bus
StatusMsg(w, payload, by) ==
  [kind |-> "status", worker |-> w, domain |-> <<>>, payload |-> payload,
   qos |-> 1, retain |-> TRUE, by |-> by, delivered |-> TRUE]
DataMsg(w, domain) ==
  [kind |-> "data", worker |-> w, domain |-> domain, payload |-> WgData(w, domain),
   qos |-> 1, retain |-> TRUE, by |-> "on_connect", delivered |-> TRUE]
MetricsMsg(w, domain, payload, qos, by) ==
  [kind |-> "metrics", worker |-> w, domain |-> domain, payload |-> payload,
   qos |-> qos, retain |-> TRUE, by |-> by, delivered |-> TRUE]

\* client.publish: the message reaches the bus only over a connection
client_publish(log, w, msg) ==
  Append(log, [msg EXCEPT !.delivered = mqtt_client[w].connected])

\* the codes of CONNACK: 0 accepts the connection, 5 is "not authorized"
CONNACK_ACCEPTED == 0
ConnackCodes == {CONNACK_ACCEPTED, 5}

connect_without_will(w) ==
  /\ ~mqtt_client[w].started
  /\ mqtt_client' = [mqtt_client EXCEPT ![w].started = TRUE]
  /\ threads' = [threads EXCEPT ![w].mark_offline = "wait",
                                ![w].metrics = [d \in WorkerDomainSet |-> "test"]]
  /\ UNCHANGED <<queue_vars, broker_vars, exit_event, bus, brx, calls, handshakes>>

\* connect(): registers the will, the callbacks, starts mark_offline_on_exit
\* and a metrics thread per domain, and enters loop_forever
connect(w) ==
  /\ ~mqtt_client[w].started
  /\ mqtt_client' = [mqtt_client EXCEPT ![w].started = TRUE,
                                        ![w].will = <<StatusMsg(w, 0, "will")>>]
  /\ threads' = [threads EXCEPT ![w].mark_offline = "wait",
                                ![w].metrics = [d \in WorkerDomainSet |-> "test"]]
  /\ UNCHANGED <<queue_vars, broker_vars, exit_event, bus, brx, calls, handshakes>>

\* the second loop of on_connect: it ends at a domain for which
\* wg_interface_name raises
RECURSIVE PublishData(_, _, _, _)
PublishData(log, w, domains, n) ==
  IF n > Len(domains) \/ wg_interface_name(domains[n]) = <<>> THEN log
  ELSE PublishData(Append(log, DataMsg(w, domains[n])),
                   w, domains, n + 1)

on_connect_status_first(w, rc) ==
  /\ mqtt_client[w].started
  /\ ~mqtt_client[w].connected
  /\ ~exit_event[w]
  /\ IF rc # CONNACK_ACCEPTED
     THEN /\ mqtt_client' = [mqtt_client EXCEPT ![w].connack = rc]
          /\ UNCHANGED bus
     ELSE /\ mqtt_client' = [mqtt_client EXCEPT ![w].connected = TRUE,
                                                ![w].connack = rc,
                                                ![w].subs = WorkerDomainSet]
          /\ bus' = PublishData(Append(bus, StatusMsg(w, 1, "on_connect")),
                                w, WorkerDomains, 1)
  /\ UNCHANGED <<queue_vars, broker_vars, exit_event, threads, brx, calls, handshakes>>

\* on_connect for the code rc of the server's CONNACK; loop_forever calls it
\* on the main thread, which on_exit takes over for good
on_connect(w, rc) ==
  /\ mqtt_client[w].started
  /\ ~mqtt_client[w].connected
  /\ ~exit_event[w]
  /\ IF rc # CONNACK_ACCEPTED
     THEN /\ mqtt_client' = [mqtt_client EXCEPT ![w].connack = rc]
          /\ UNCHANGED bus
     ELSE /\ mqtt_client' = [mqtt_client EXCEPT ![w].connected = TRUE,
                                                ![w].connack = rc,
                                                ![w].subs = WorkerDomainSet]
          /\ bus' = IF \E i \in 1..Len(WorkerDomains) :
                         wg_interface_name(WorkerDomains[i]) = <<>>
                    THEN PublishData(bus, w, WorkerDomains, 1)
                    ELSE Append(PublishData(bus, w, WorkerDomains, 1),
                                StatusMsg(w, 1, "on_connect"))
  /\ UNCHANGED <<queue_vars, broker_vars, exit_event, threads, brx, calls, handshakes>>

\* the connection breaks without a DISCONNECT: the server publishes the will
ConnectionLost(w) ==
  /\ mqtt_client[w].connected
  /\ mqtt_client' = [mqtt_client EXCEPT ![w].connected = FALSE, ![w].subs = {}]
  /\ bus' = bus \o mqtt_client[w].will
  /\ UNCHANGED <<queue_vars, broker_vars, exit_event, threads, brx, calls, handshakes>>

\* on_exit, the handler of SIGINT: exit_event.set()
on_exit(w) ==
  /\ mqtt_client[w].started
  /\ ~exit_event[w]
  /\ exit_event' = [exit_event EXCEPT ![w] = TRUE]
  /\ UNCHANGED <<queue_vars, broker_vars, mqtt_client, threads, bus, brx, calls, handshakes>>

\* mark_offline_on_exit, once exit_event.wait() returns
mark_offline_on_exit(w) ==
  /\ threads[w].mark_offline = "wait"
  /\ exit_event[w]
  /\ bus' = IF mqtt_client[w].connected
            THEN client_publish(bus, w, StatusMsg(w, 0, "mark_offline_on_exit"))
            ELSE bus
  /\ threads' = [threads EXCEPT ![w].mark_offline = "done"]
  /\ UNCHANGED <<queue_vars, broker_vars, mqtt_client, exit_event, brx, calls, handshakes>>

\* what a call of get_connected_peers_count can do: return, raise
\* NetlinkDumpInterrupted a second time, or raise another exception
MetricsOutcomes == {"count", "interrupted", "error"}

publish_metrics_cycle_no_except(w, domain, outcome, now) ==
  /\ threads[w].metrics[domain] = "test"
  /\ ~exit_event[w]
  /\ LET iface == wg_interface_name(domain)
     IN  IF iface # <<>> /\ outcome = "count"
         THEN bus' = client_publish(bus, w,
                       MetricsMsg(w, domain,
                                  get_connected_peers_count(netlink[w], handshakes[w], iface, now),
                                  0, "publish_metrics"))
         ELSE UNCHANGED bus
  /\ threads' = [threads EXCEPT ![w].metrics[domain] =
                   IF wg_interface_name(domain) = <<>> \/ outcome = "error"
                   THEN "dead" ELSE "finally"]
  /\ UNCHANGED <<queue_vars, broker_vars, mqtt_client, exit_event, brx, calls, handshakes>>

\* publish_metrics_loop at the test of its while with exit_event clear: one
\* call of publish_metrics, which returns or raises into the except clause
publish_metrics_cycle(w, domain, outcome, now) ==
  /\ threads[w].metrics[domain] = "test"
  /\ ~exit_event[w]
  /\ LET iface == wg_interface_name(domain)
     IN  IF iface # <<>> /\ outcome = "count"
         THEN bus' = client_publish(bus, w,
                       MetricsMsg(w, domain,
                                  get_connected_peers_count(netlink[w], handshakes[w], iface, now),
                                  0, "publish_metrics"))
         ELSE UNCHANGED bus
  /\ threads' = [threads EXCEPT ![w].metrics[domain] =
                   IF wg_interface_name(domain) = <<>> \/ outcome = "error"
                   THEN "except" ELSE "finally"]
  /\ UNCHANGED <<queue_vars, broker_vars, mqtt_client, exit_event, brx, calls, handshakes>>

\* what one wg.info(wg_interface) can do: return the dump, raise
\* NetlinkDumpInterrupted, or raise another exception
DumpOutcomes == {"dump", "interrupted", "error"}

wg_info_without_retry(dumps) ==
  IF dumps[1] = "dump" THEN [reads |-> 1, outcome |-> "count"]
  ELSE [reads |-> 1, outcome |-> dumps[1]]

\* the wg.info calls of get_connected_peers_count, dumps[n] being what the
\* n-th call does: how many calls it makes, and whether it returns a count,
\* raises NetlinkDumpInterrupted or raises another exception
wg_info_with_retry(dumps) ==
  IF dumps[1] = "dump" THEN [reads |-> 1, outcome |-> "count"]
  ELSE IF dumps[1] = "error" THEN [reads |-> 1, outcome |-> "error"]
  ELSE IF dumps[2] = "dump" THEN [reads |-> 2, outcome |-> "count"]
  ELSE [reads |-> 2, outcome |-> dumps[2]]

NoDump == [op |-> "", domain |-> <<>>, dumps |-> <<>>, reads |-> 0, outcome |-> ""]

\* publish_metrics_loop at the test of its while with exit_event clear, the
\* wg.info calls of get_connected_peers_count doing what dumps says; probe
\* keeps the call
publish_metrics(w, domain, dumps, now) ==
  /\ threads[w].metrics[domain] = "test"
  /\ ~exit_event[w]
  /\ LET iface == wg_interface_name(domain)
         read == IF iface = <<>> THEN [reads |-> 0, outcome |-> "error"]
                 ELSE wg_info_with_retry(dumps)
     IN  /\ IF read.outcome = "count"
            THEN bus' = client_publish(bus, w,
                          MetricsMsg(w, domain,
                                     get_connected_peers_count(netlink[w], handshakes[w],
                                                               iface, now),
                                     0, "publish_metrics"))
            ELSE UNCHANGED bus
         /\ threads' = [threads EXCEPT ![w].metrics[domain] =
                          IF read.outcome = "error" THEN "except" ELSE "finally"]
         /\ probe' = [op |-> "publish_metrics", domain |-> domain, dumps |-> dumps,
                      reads |-> read.reads, outcome |-> read.outcome]
  /\ UNCHANGED <<queue_vars, workers_cfg, worker_metrics, worker_data, blacklist,
                 allowlist, parker, published, http, response, nreq, nbus,
                 mqtt_client, exit_event, brx, calls, handshakes>>

\* exit_event.wait(_METRICS_SEND_INTERVAL) of the finally clause returns:
\* the interval is over or the event is set
publish_metrics_wait(w, domain) ==
  /\ threads[w].metrics[domain] \in {"finally", "except"}
  /\ threads' = [threads EXCEPT ![w].metrics[domain] = "test"]
  /\ UNCHANGED <<queue_vars, broker_vars, mqtt_client, exit_event, bus, brx, calls, handshakes>>

publish_metrics_end_silent(w, domain) ==
  /\ threads[w].metrics[domain] = "test"
  /\ exit_event[w]
  /\ UNCHANGED bus
  /\ threads' = [threads EXCEPT ![w].metrics[domain] = "done"]
  /\ UNCHANGED <<queue_vars, broker_vars, mqtt_client, exit_event, brx, calls, handshakes>>

\* publish_metrics_loop at the test of its while with exit_event set: the
\* loop ends and the thread publishes -1
publish_metrics_end(w, domain) ==
  /\ threads[w].metrics[domain] = "test"
  /\ exit_event[w]
  /\ bus' = client_publish(bus, w, MetricsMsg(w, domain, -1, 1, "publish_metrics_loop"))
  /\ threads' = [threads EXCEPT ![w].metrics[domain] = "done"]
  /\ UNCHANGED <<queue_vars, broker_vars, mqtt_client, exit_event, brx, calls, handshakes>>

(***************************************************************************)
(* The registry on its own: the feed from the bus and the two queries      *)
(***************************************************************************)
NoProbe ==
  [op |-> "", worker |-> "", domain |-> <<>>, name |-> None, diff |-> 0,
   peers |-> 0, online |-> FALSE]

SelMetrics ==
  \E d \in BusDomains, w \in BusWorkers, v \in MetricPayloads :
    /\ handle_mqtt_message_metrics(d, w, CONNECTED_PEERS_METRIC, v)
    /\ probe' = NoProbe
    /\ UNCHANGED <<nbus, worker_vars>>

SelStatus ==
  \E w \in WorkerNames, st \in StatusPayloads :
    /\ handle_mqtt_message_status(w, st)
    /\ probe' = NoProbe
    /\ UNCHANGED <<nbus, worker_vars>>

\* a call of WorkerMetricsCollection.get_best_worker(domain)
CallGetBestWorker ==
  \E d \in {DomainA, DomainB} :
    /\ LET r == get_best_worker(workers_cfg, worker_metrics, d)
       IN  probe' = [NoProbe EXCEPT !.op = "get_best_worker", !.domain = d,
                                    !.name = r.name, !.diff = r.diff,
                                    !.peers = r.peers]
    /\ UNCHANGED <<workers_cfg, worker_metrics, worker_data, blacklist,
                   allowlist, parker, published, http, response, nreq, nbus, worker_vars>>

\* a call of worker_metrics.get(worker).is_online(domain)
CallIsOnline ==
  \E w \in WorkerNames, d \in {DomainA, DomainB, <<>>} :
    /\ probe' = [NoProbe EXCEPT !.op = "is_online", !.worker = w, !.domain = d,
                                !.online = is_online(get(worker_metrics, w), d)]
    /\ UNCHANGED <<workers_cfg, worker_metrics, worker_data, blacklist,
                   allowlist, parker, published, http, response, nreq, nbus, worker_vars>>

\* the workers when main() calls mqtt.connect, their kernels holding the
\* peers of kernel with the last handshake times of shakes
WorkersWith(kernel, shakes) ==
  /\ rx = [w \in WorkerNames |-> 0]
  /\ q = [w \in WorkerNames |-> {}]
  /\ netlink = kernel
  /\ mqtt_client = [w \in WorkerNames |-> NoClient]
  /\ exit_event = [w \in WorkerNames |-> FALSE]
  /\ threads = [w \in WorkerNames |-> ThreadsAtStart]
  /\ bus = <<>>
  /\ brx = 0
  /\ calls = [w \in WorkerNames |-> <<>>]
  /\ handshakes = shakes

\* workers whose kernels hold no peer yet
WorkersStarted ==
  WorkersWith([w \in WorkerNames |-> NoPeers], [w \in WorkerNames |-> EmptyDict])

\* the state of a broker that has just started, under workers configuration cfg
BrokerStartedWith(cfg, first_probe, v3) ==
  /\ workers_cfg = cfg
  /\ worker_metrics = <<>>
  /\ worker_data = EmptyDict
  /\ blacklist = {KeyB}
  /\ allowlist = [d \in {DomainA} |-> {KeyA}]
  /\ parker = v3
  /\ published = <<>>
  /\ http = [h \in Handlers |-> IdleHandler]
  /\ response = NoResponse
  /\ nreq = 0
  /\ nbus = 0
  /\ probe = first_probe

BrokerStarted(cfg, first_probe) == BrokerStartedWith(cfg, first_probe, ParkerAtStart)

StartedProbing(cfg, first_probe) == BrokerStarted(cfg, first_probe) /\ WorkersStarted

Started(cfg) == StartedProbing(cfg, NoProbe)

InitSelect == \E cfg \in WorkerConfigs : Started(cfg)

NextSelect == SelMetrics \/ SelStatus \/ CallGetBestWorker \/ CallIsOnline

SpecSelect == InitSelect /\ [][NextSelect]_vars

(***************************************************************************)
(* The broker: two HTTP handler threads and the bus callbacks              *)
(***************************************************************************)
BusMetrics ==
  /\ nbus < MaxBusMsgs
  /\ nbus' = nbus + 1
  /\ UNCHANGED <<probe, worker_vars>>
  /\ \E d \in BusDomains, w \in BusWorkers, v \in MetricPayloads :
       handle_mqtt_message_metrics(d, w, CONNECTED_PEERS_METRIC, v)

BusStatus ==
  /\ nbus < MaxBusMsgs
  /\ nbus' = nbus + 1
  /\ UNCHANGED <<probe, worker_vars>>
  /\ \E w \in WorkerNames, st \in StatusPayloads :
       handle_mqtt_message_status(w, st)

BusData ==
  /\ nbus < MaxBusMsgs
  /\ nbus' = nbus + 1
  /\ UNCHANGED <<probe, worker_vars>>
  /\ \E w \in WorkerNames, d \in BusDomains :
       \E data \in DataPayloads(w, d) : handle_mqtt_message_data(w, d, data)

V1Request ==
  /\ UNCHANGED worker_vars
  /\ \E h \in Handlers, msg \in RequestBodies : V1KeyExchange(h, msg)
V2Request ==
  /\ UNCHANGED worker_vars
  /\ \E h \in Handlers, msg \in RequestBodies : V2Begin(h, msg)
V2SelectStep == UNCHANGED worker_vars /\ \E h \in Handlers : V2Select(h)
V2ReadStep == UNCHANGED worker_vars /\ \E h \in Handlers : V2Read(h)
V2UpdateStep == UNCHANGED worker_vars /\ \E h \in Handlers : V2Update(h)
V2LookupStep == UNCHANGED worker_vars /\ \E h \in Handlers : V2Lookup(h)

Init == Started(WeightedConfig)

Next ==
  \/ V1Request \/ V2Request \/ V2SelectStep \/ V2ReadStep \/ V2UpdateStep
  \/ V2LookupStep \/ BusMetrics \/ BusStatus \/ BusData

Spec == Init /\ [][Next]_vars

(***************************************************************************)
(* The broker while no bus message arrives: the registry is fed before the *)
(* first request, then the handler threads run v2 requests on their own    *)
(***************************************************************************)
FeedMetrics == nreq = 0 /\ BusMetrics
FeedStatus == nreq = 0 /\ BusStatus
FeedData == nreq = 0 /\ BusData

NextRace ==
  \/ FeedMetrics \/ FeedStatus \/ FeedData
  \/ V2Request \/ V2SelectStep \/ V2ReadStep \/ V2UpdateStep \/ V2LookupStep

SpecRace == Init /\ [][NextRace]_vars

(***************************************************************************)
(* Broker and workers: a request from the HTTP API to the worker's kernel  *)
(***************************************************************************)
V2RequestInTurn ==
  /\ nreq < MaxInstallRequests
  /\ UNCHANGED worker_vars
  /\ \E msg \in RequestBodies : V2Begin(1, msg)
DeliverStep == \E w \in WorkerNames : Deliver(w)
InstallStep == \E w \in WorkerNames : pick_from_queue(w)

\* what a worker leaves retained on the bus once it has connected with no
\* peer yet: its peer counts, its endpoint data and its status
RetainedOf(w) ==
  << [kind |-> "metrics", worker |-> w, domain |-> DomainA, payload |-> 0],
     [kind |-> "metrics", worker |-> w, domain |-> DomainB, payload |-> 0],
     [kind |-> "data", worker |-> w, domain |-> DomainA, payload |-> WgData(w, DomainA)],
     [kind |-> "data", worker |-> w, domain |-> DomainB, payload |-> WgData(w, DomainB)],
     [kind |-> "status", worker |-> w, domain |-> <<>>, payload |-> 1] >>
RetainedMessages == RetainedOf("w2") \o RetainedOf("w1")

\* the broker, having subscribed, is handed the retained messages one by one
HandleRetained ==
  /\ nreq = 0
  /\ nbus < Len(RetainedMessages)
  /\ nbus' = nbus + 1
  /\ UNCHANGED <<probe, worker_vars>>
  /\ LET m == RetainedMessages[nbus + 1]
     IN  CASE m.kind = "metrics" ->
                handle_mqtt_message_metrics(m.domain, m.worker, CONNECTED_PEERS_METRIC,
                                            m.payload)
           [] m.kind = "status" -> handle_mqtt_message_status(m.worker, m.payload)
           [] m.kind = "data" -> handle_mqtt_message_data(m.worker, m.domain, m.payload)

NextInstall ==
  \/ HandleRetained
  \/ V2RequestInTurn \/ V2SelectStep \/ V2ReadStep \/ V2UpdateStep \/ V2LookupStep
  \/ DeliverStep \/ InstallStep

\* the bus delivers what was published, and the installer thread keeps running
FairInstall == WF_vars(DeliverStep) /\ WF_vars(InstallStep)

SpecInstall == Init /\ [][NextInstall]_vars /\ FairInstall

(***************************************************************************)
(* The broker's bus callbacks with the message handled last on record, and *)
(* one v2 request beside them (SpecBus)                                    *)
(***************************************************************************)
\* number of bus messages handled in one behaviour of SpecBus
MaxLoggedMsgs == 3

DomainSet == { Domains[i] : i \in 1..Len(Domains) }
LoggedDomains == BusDomains \cup {DomainNoPrefix}
\* int(message.payload) of a status message
LoggedStatus == -1 .. 2

\* probe in SpecBus: the message handled last and, per worker, the payload of
\* the last status message handled for it (the empty set when there was none)
NoMessage ==
  [op |-> "", worker |-> "", domain |-> <<>>, payload |-> 0,
   last_status |-> [w \in WorkerNames |-> {}]]

LogMetrics ==
  /\ nbus < MaxLoggedMsgs
  /\ nbus' = nbus + 1
  /\ UNCHANGED worker_vars
  /\ \E d \in LoggedDomains, w \in BusWorkers, v \in MetricPayloads :
       /\ handle_mqtt_message_metrics(d, w, CONNECTED_PEERS_METRIC, v)
       /\ probe' = [probe EXCEPT !.op = "metrics", !.worker = w, !.domain = d,
                                 !.payload = v]

LogStatus ==
  /\ nbus < MaxLoggedMsgs
  /\ nbus' = nbus + 1
  /\ UNCHANGED worker_vars
  /\ \E w \in WorkerNames, st \in LoggedStatus :
       /\ handle_mqtt_message_status(w, st)
       /\ probe' = [probe EXCEPT !.op = "status", !.worker = w, !.domain = <<>>,
                                 !.payload = st, !.last_status[w] = {st}]

LogData ==
  /\ nbus < MaxLoggedMsgs
  /\ nbus' = nbus + 1
  /\ UNCHANGED worker_vars
  /\ \E w \in WorkerNames, d \in LoggedDomains :
       /\ handle_mqtt_message_data(w, d, WgData(w, d))
       /\ probe' = [probe EXCEPT !.op = "data", !.worker = w, !.domain = d,
                                 !.payload = 0]

InitBus == StartedProbing(WeightedConfig, NoMessage)

NextBus ==
  \/ LogMetrics \/ LogStatus \/ LogData
  \/ V2RequestInTurn \/ V2SelectStep \/ V2ReadStep \/ V2UpdateStep \/ V2LookupStep

SpecBus == InitBus /\ [][NextBus]_vars

(***************************************************************************)
(* A worker that connects and loses its connection, the broker that reads  *)
(* what arrives on the bus, and calls of get_best_worker (SpecLife)        *)
(***************************************************************************)
\* number of connections a behaviour of SpecLife loses
MaxLosses == 1
\* number of metrics messages in a behaviour of SpecLife
MaxLifeMetrics == 2
\* number of connections accepted in a behaviour of SpecLife
MaxConnacks == 3

\* the broker's callbacks for the next message of the bus, by its topic;
\* a message that did not reach the bus is passed over
BrokerReceives ==
  /\ brx < Len(bus)
  /\ brx' = brx + 1
  /\ LET m == bus[brx + 1]
     IN  CASE ~m.delivered -> UNCHANGED <<workers_cfg, worker_metrics, worker_data, blacklist,
                                         allowlist, parker, published, http, response, nreq>>
           [] m.kind = "status" -> handle_mqtt_message_status(m.worker, m.payload)
           [] m.kind = "metrics" ->
                handle_mqtt_message_metrics(m.domain, m.worker, CONNECTED_PEERS_METRIC, m.payload)
           [] m.kind = "data" -> handle_mqtt_message_data(m.worker, m.domain, m.payload)
  /\ UNCHANGED <<nbus, probe, queue_vars, mqtt_client, exit_event, threads, bus,
                 calls, handshakes>>

Wills == { i \in 1..Len(bus) : bus[i].by = "will" }
Connacks == Cardinality({ i \in 1..Len(bus) : bus[i].by = "on_connect"
                                               /\ bus[i].kind = "status" })

LifeConnect == \E w \in WorkerNames : connect(w)
LifeOnConnect ==
  \E w \in WorkerNames :
    /\ Connacks < MaxConnacks
    /\ on_connect(w, CONNACK_ACCEPTED)
LifeLost ==
  \E w \in WorkerNames :
    /\ Cardinality(Wills) < MaxLosses
    /\ ConnectionLost(w)

LifeMetrics ==
  \E w \in WorkerNames, d \in WorkerDomainSet, now \in Clocks :
    /\ Cardinality({ i \in 1..Len(bus) : bus[i].kind = "metrics" }) < MaxLifeMetrics
    /\ mqtt_client[w].connected
    /\ publish_metrics_cycle(w, d, "count", now)
LifeMetricsWait == \E w \in WorkerNames, d \in WorkerDomainSet : publish_metrics_wait(w, d)

NextLife ==
  \/ LifeConnect \/ LifeOnConnect \/ LifeLost \/ LifeMetrics \/ LifeMetricsWait
  \/ BrokerReceives \/ CallGetBestWorker

FairLife == WF_vars(BrokerReceives)

SpecLife == Init /\ [][NextLife]_vars /\ FairLife

(***************************************************************************)
(* One worker from connect() to its exit, with its threads (SpecWorker)    *)
(***************************************************************************)
\* connections accepted, connections lost, metrics published and
\* link_handler calls of failing flusher runs in a behaviour of SpecWorker
MaxWorkerConnacks == 2
MaxWorkerLosses == 1
MaxWorkerMetrics == 1
MaxFailedCalls == 1

\* the peer update_wireguard_peer sets for a key on the interface of a domain
PeerOf(domain, key) ==
  CHOOSE p \in update_wireguard_peer(NoPeers, [public_key |-> key, domain |-> domain,
                                               remove |-> FALSE]).wg : TRUE

RECURSIVE InstallAll(_, _)
InstallAll(kernel, items) ==
  IF items = {} THEN kernel
  ELSE LET item == CHOOSE x \in items : TRUE
       IN  InstallAll(link_handler(kernel, [public_key |-> item[2], domain |-> item[1],
                                            remove |-> FALSE]),
                      items \ {item})

\* the worker w1 with KeyA and KeyC installed on wg-a, KeyA without a
\* handshake since the epoch, KeyC with one a minute before the clock starts
InitWorker ==
  /\ BrokerStarted(WeightedConfig, NoProbe)
  /\ WorkersWith(
       [w \in WorkerNames |->
          IF w = "w1" THEN InstallAll(NoPeers, {<<<<"a">>, KeyA>>, <<<<"a">>, KeyC>>})
          ELSE NoPeers],
       [w \in WorkerNames |->
          IF w = "w1"
          THEN [p \in {PeerOf(<<"a">>, KeyA), PeerOf(<<"a">>, KeyC)} |->
                  IF p.public_key = KeyA THEN 0 ELSE 4 * 3600 - 60]
          ELSE EmptyDict])

BusBy(w, by) == { i \in 1..Len(bus) : bus[i].worker = w /\ bus[i].by = by }

WConnect == connect("w1")
WOnConnect ==
  \E rc \in ConnackCodes :
    /\ Cardinality({ i \in BusBy("w1", "on_connect") : bus[i].kind = "status" })
         < MaxWorkerConnacks
    /\ on_connect("w1", rc)
WLost ==
  /\ Cardinality(BusBy("w1", "will")) < MaxWorkerLosses
  /\ ConnectionLost("w1")
WExit == on_exit("w1")
WMarkOffline == mark_offline_on_exit("w1")
WMetricsCycle ==
  \E d \in WorkerDomainSet, outcome \in MetricsOutcomes, now \in Clocks :
    /\ outcome = "count" => Cardinality(BusBy("w1", "publish_metrics")) < MaxWorkerMetrics
    /\ publish_metrics_cycle("w1", d, outcome, now)
WMetricsWait == \E d \in WorkerDomainSet : publish_metrics_wait("w1", d)
WMetricsEnd == \E d \in WorkerDomainSet : publish_metrics_end("w1", d)
\* the runs of the flusher in SpecWorker: without failure, or raising in
\* the dump or in the first netlink operation of the first removal
WorkerFailures == {NoFailure, DumpFailure, [at |-> 1, ops |-> {"Wireguard"}]}
WFlush ==
  \E d \in WorkerDomainSet, now \in Clocks, failure \in WorkerFailures :
    /\ failure.at > 0 => Len(calls["w1"]) < MaxFailedCalls
    /\ flush_workers("w1", d, now, failure)
    /\ UNCHANGED probe
WFlushAgain == \E d \in WorkerDomainSet : flush_workers_again("w1", d)

NextWorker ==
  \/ WConnect \/ WOnConnect \/ WLost \/ WExit \/ WMarkOffline
  \/ WMetricsCycle \/ WMetricsWait \/ WMetricsEnd \/ WFlush \/ WFlushAgain

\* every thread that can take a step takes one
FairWorker ==
  /\ WF_vars(WMarkOffline)
  /\ \A d \in WorkerDomainSet :
       /\ WF_vars(publish_metrics_wait("w1", d))
       /\ WF_vars(publish_metrics_end("w1", d))
       /\ WF_vars(flush_workers_again("w1", d))

SpecWorker == InitWorker /\ [][NextWorker]_vars /\ FairWorker

(***************************************************************************)
(* The queue of one worker: messages arrive from the bus and the installer *)
(* takes them, its netlink operations succeeding or not (SpecQueue)        *)
(***************************************************************************)
\* number of messages published to the workers in a behaviour of SpecQueue
MaxQueueMsgs == 3

\* the messages of the broker for (f_a, KeyA), (f_a, KeyB) and (f_b, KeyA)
QueueMessages ==
  { [topic |-> WireguardTopic(DomainA, GatewayAll), payload |-> KeyA],
    [topic |-> WireguardTopic(DomainA, GatewayAll), payload |-> KeyB],
    [topic |-> WireguardTopic(DomainB, <<"w1">>), payload |-> KeyA] }

QueuePublish ==
  \E m \in QueueMessages :
    /\ Len(published) < MaxQueueMsgs
    /\ published' = Publish(published, m.topic, m.payload)
    /\ UNCHANGED <<workers_cfg, worker_metrics, worker_data, blacklist, allowlist, parker,
                   http, response, nreq, nbus, probe, worker_vars>>

QueueDeliver == Deliver("w1")

QueueInstall ==
  \E failing \in SUBSET NetlinkOperations : pick_from_queue_run("w1", failing)

NextQueue == QueuePublish \/ QueueDeliver \/ QueueInstall

\* the bus delivers what is published, and the installer thread, while it
\* lives, is scheduled
FairQueue == WF_vars(QueueDeliver) /\ WF_vars(QueueInstall)

SpecQueue == Init /\ [][NextQueue]_vars /\ FairQueue

(***************************************************************************)
(* The flusher of one worker over kernels with stale and fresh peers       *)
(* (SpecFlush)                                                             *)
(***************************************************************************)
\* tv_sec of a last handshake: the epoch, a second more than three hours
\* before the first clock value, exactly three hours before it, a minute
\* before it
HandshakeTimes == {0, 3600 - 1, 3600, 4 * 3600 - 60}

FlushKeys == {KeyA, KeyB, KeyC}

\* a key is not a peer, a peer that never had a handshake, or a peer with a
\* last handshake time
NotAPeer == [present |-> FALSE, shake |-> {}]
NoHandshake == [present |-> TRUE, shake |-> {}]
PeerStates ==
  {NotAPeer, NoHandshake} \cup { [present |-> TRUE, shake |-> {t}] : t \in HandshakeTimes }

\* the kernel of w1 for a choice of peers on wg-a, beside a peer KeyA on
\* wg-b without a handshake since the epoch
KernelOf(peers) ==
  InstallAll(NoPeers, { <<<<"a">>, k>> : k \in { x \in FlushKeys : peers[x].present } }
                        \cup { <<<<"b">>, KeyA>> })
ShakesFor(peers) ==
  [p \in { PeerOf(<<"a">>, k) : k \in { x \in FlushKeys : peers[x].shake # {} } }
           \cup { PeerOf(<<"b">>, KeyA) } |->
     IF p.interface = <<"w","g","-","a">>
     THEN CHOOSE t \in peers[p.public_key].shake : TRUE
     ELSE 0]

\* probe in SpecFlush: the run of the flusher made last
NoRun == [op |-> "", domain |-> <<>>, now |-> 0, failure |-> NoFailure]

InitFlush ==
  \E peers \in [FlushKeys -> PeerStates] :
    /\ BrokerStarted(WeightedConfig, NoRun)
    /\ WorkersWith([w \in WorkerNames |-> IF w = "w1" THEN KernelOf(peers) ELSE NoPeers],
                   [w \in WorkerNames |-> IF w = "w1" THEN ShakesFor(peers) ELSE EmptyDict])

FlushRun ==
  \E d \in WorkerDomainSet, now \in Clocks, failure \in Failures :
    /\ failure.at > 0 => Len(calls["w1"]) < MaxFailedCalls
    /\ flush_workers("w1", d, now, failure)
    /\ probe' = [op |-> "flush_workers", domain |-> d, now |-> now, failure |-> failure]

FlushAgain ==
  \E d \in WorkerDomainSet :
    /\ flush_workers_again("w1", d)
    /\ UNCHANGED probe

NextFlush == FlushRun \/ FlushAgain

SpecFlush == InitFlush /\ [][NextFlush]_vars

(***************************************************************************)
(* JSONFileIPAM, one call at a time, on a ranges file set up as its        *)
(* comment describes: a parent prefix and no ranges, or no file at all.    *)
(***************************************************************************)
IpamKeys == {KeyA, KeyB, KeyC, KeyD}
ParentPrefixes == {DefaultParent, Net(0, 2)}
\* config.parker.prefixes.ipv6.length
PrefixLengths == {2, 3}
FreshFiles == {MissingFile} \cup {JsonFile(p, EmptyDict) : p \in ParentPrefixes}

IpamStarted(file, length) ==
  /\ BrokerStartedWith(WeightedConfig, NoProbe,
                       [ParkerAtStart EXCEPT !.file = file, !.length = length])
  /\ WorkersStarted

InitIpam == \E file \in FreshFiles, length \in PrefixLengths : IpamStarted(file, length)

IpamCalls == \E pubkey \in IpamKeys : IpamCall(pubkey)

NextIpam == IpamCalls

SpecIpam == InitIpam /\ [][NextIpam]_vars

(***************************************************************************)
(* JSONFileIPAM, one call at a time, on a ranges file with any content:    *)
(* ranges inside and outside the parent prefix, of other lengths, and      *)
(* texts that are no network.                                              *)
(***************************************************************************)
\* a range in the default parent, one that spans two candidates, one outside
\* the default parent, and a text with host bits set
StoredTexts == {Net(10, 3), Net(12, 2), Net(4, 3), Net(5, 3)}
StoredRanges ==
  UNION {[ks -> StoredTexts] : ks \in SUBSET {KeyA, KeyB}}
StoredFiles ==
  {JsonFile(p, rs) : p \in {DefaultParent, Net(8, 2)}, rs \in StoredRanges}
StoredLengths == 0..3

InitIpamStored ==
  \E file \in StoredFiles, length \in StoredLengths : IpamStarted(file, length)

SpecIpamStored == InitIpamStored /\ [][NextIpam]_vars

(***************************************************************************)
(* JSONFileIPAM called by the handler threads of the HTTP server, which    *)
(* run get_or_allocate_prefix side by side.                                *)
(***************************************************************************)
InitIpamThreads == IpamStarted(JsonFile(DefaultParent, EmptyDict), AddrBits - 1)

ThreadKeys == {KeyA, KeyB}
IpamReads == \E h \in Handlers, pubkey \in ThreadKeys : IpamRead(h, pubkey)
IpamOpens == \E h \in Handlers : IpamOpen(h)
IpamDumps == \E h \in Handlers : IpamDump(h)

NextIpamThreads == IpamReads \/ IpamOpens \/ IpamDumps

SpecIpamThreads == InitIpamThreads /\ [][NextIpamThreads]_vars

(***************************************************************************)
(* Properties of the registry and of worker selection (SpecSelect)         *)
(***************************************************************************)
\* what the registry records, read off the state
RecordedOnlineFlag(w) ==
  \E i \in 1..Len(worker_metrics) :
    worker_metrics[i].worker = w /\ worker_metrics[i].online

RecordedPeersAtLeastZero(w, d) ==
  \E i \in 1..Len(worker_metrics) :
    /\ worker_metrics[i].worker = w
    /\ d \in DOMAIN worker_metrics[i].domain_data
    /\ CONNECTED_PEERS_METRIC \in DOMAIN worker_metrics[i].domain_data[d]
    /\ worker_metrics[i].domain_data[d][CONNECTED_PEERS_METRIC] >= 0

OnlineFor(w, d) == RecordedOnlineFlag(w) /\ RecordedPeersAtLeastZero(w, d)

Selected == probe.op = "get_best_worker" /\ probe.name # None

\* C1: when get_best_worker(d) returns a worker, that worker's online flag is
\* true and a connected_peers value >= 0 is recorded for it in d; an offline
\* worker, or one whose connected_peers for d is negative or missing, is
\* never returned.
C1_ReturnsOnlyOnlineWorkers == Selected => OnlineFor(probe.name, probe.domain)

\* a worker is returned while another registered worker is marked online but
\* has no usable connected_peers for the domain
C1_Witness ==
  /\ Selected
  /\ \E w \in WorkerNames :
       w # probe.name /\ RecordedOnlineFlag(w) /\ ~RecordedPeersAtLeastZero(w, probe.domain)

\* peer_count(w): the sum over all domains of max(0, connected_peers)
PeersOfRow(row) ==
  LET dd == row.domain_data
      val(d) == IF /\ d \in DOMAIN dd
                   /\ CONNECTED_PEERS_METRIC \in DOMAIN dd[d]
                   /\ dd[d][CONNECTED_PEERS_METRIC] > 0
                THEN dd[d][CONNECTED_PEERS_METRIC] ELSE 0
  IN  val(DomainA) + val(DomainB)

PeersOf(w) ==
  IF \E i \in 1..Len(worker_metrics) : worker_metrics[i].worker = w
  THEN PeersOfRow(worker_metrics[CHOOSE i \in 1..Len(worker_metrics) :
                                   worker_metrics[i].worker = w])
  ELSE 0

\* T: the peers of the whole fleet
FleetPeers == PeersOf("w1") + PeersOf("w2")

\* relative_weight(w) = WeightNum(w) / WeightDen
WeightNum(w) == IF w \in DOMAIN workers_cfg THEN workers_cfg[w].weight ELSE 1
WeightDen == IF workers_cfg = NoWorkersConfig THEN 1 ELSE WeightNum("w1") + WeightNum("w2")

\* WeightDen * (peer_count(w) - relative_weight(w) * T)
UnroundedDiffTimesDen(w) == PeersOf(w) * WeightDen - WeightNum(w) * FleetPeers

RoundedTarget(w) ==
  CHOOSE t \in 0..(WeightNum(w) * FleetPeers + 1) :
    LET twice == 2 * (t * WeightDen - WeightNum(w) * FleetPeers)
    IN  \/ twice < WeightDen /\ -twice < WeightDen
        \/ (twice = WeightDen \/ -twice = WeightDen) /\ t % 2 = 0

RoundedDiff(w) == PeersOf(w) - RoundedTarget(w)

C10_OnlineIffFlagAndPeers ==
  (probe.op = "is_online" /\ probe.domain # <<>>) =>
    (probe.online <=> OnlineFor(probe.worker, probe.domain))

\* is_online answers false for a worker that is marked online
C10_Witness ==
  /\ probe.op = "is_online"
  /\ probe.domain # <<>>
  /\ ~probe.online
  /\ RecordedOnlineFlag(probe.worker)

(***************************************************************************)
(* Properties of the HTTP API (Spec, SpecRace)                             *)
(***************************************************************************)
\* the request passes validation: its key matches the WireGuard key pattern
\* and its domain is a configured one that begins with a configured prefix
ValidRequest(msg) ==
  /\ "public_key" \in DOMAIN msg
  /\ MatchesPubkeyPattern(msg["public_key"])
  /\ "domain" \in DOMAIN msg
  /\ \E i \in 1..Len(Domains) : Domains[i] = msg["domain"]
  /\ \E i \in 1..Len(DomainPrefixes) : StartsWith(msg["domain"], DomainPrefixes[i])

\* the body of the request taken last
NewestRequest ==
  IF response.seq = nreq THEN response.msg
  ELSE http[CHOOSE h \in Handlers : http[h].seq = nreq].msg

RequestTaken == nreq' = nreq + 1

\* C4: a v1 or v2 request whose key does not match the key pattern, or whose
\* domain is not a configured domain with a configured prefix, is answered
\* 400, publishes nothing and leaves the registry and the endpoint map as
\* they were.
C4_InvalidRequestRejected ==
  [][(RequestTaken /\ ~ValidRequest(NewestRequest')) =>
       /\ response'.seq = nreq'
       /\ response'.status = 400
       /\ published' = published
       /\ worker_metrics' = worker_metrics
       /\ worker_data' = worker_data
       /\ http' = http]_vars

\* an invalid v2 request has been answered 400 while the registry holds
\* workers and another request has published
C4_Witness ==
  /\ response.seq = nreq
  /\ response.api = "v2"
  /\ response.status = 400
  /\ ~ValidRequest(response.msg)
  /\ "public_key" \in DOMAIN response.msg
  /\ MatchesPubkeyPattern(response.msg["public_key"])
  /\ worker_metrics # <<>>
  /\ published # <<>>

\* the domain a message was published for
BroadcastTopic(d) == <<"w","i","r","e","g","u","a","r","d","/">> \o d \o <<"/","a","l","l">>
PublishedFor(i, d) == published[i].topic = BroadcastTopic(d)

\* C5: no message carrying a key of the deny-list, or a key that is not on
\* the allow-list of its domain, is ever published: such a request is
\* rejected before the publish.
C5_DeniedKeyNeverPublished ==
  \A i \in 1..Len(published) :
    /\ ~is_blacklisted(blacklist, published[i].payload)
    /\ \A d \in {DomainA, DomainB} :
         PublishedFor(i, d) => is_key_allowed(allowlist, d, published[i].payload)

\* the recorded connected_peers of (w, d): the empty set when none is recorded
RecordedPeers(reg, w, d) ==
  { reg[i].domain_data[d][CONNECTED_PEERS_METRIC] :
      i \in { j \in 1..Len(reg) :
                /\ reg[j].worker = w
                /\ d \in DOMAIN reg[j].domain_data
                /\ CONNECTED_PEERS_METRIC \in DOMAIN reg[j].domain_data[d] } }

Selects(h) == http[h].pc = "select" /\ http'[h].pc # "select"
Updates(h) == http[h].pc = "update" /\ http'[h].pc # "update"
LooksUp(h) == http[h].pc = "lookup" /\ http'[h].pc # "lookup"
Answered(h, status) == response'.seq = http[h].seq /\ response'.status = status

\* C6: a validated v2 request for d is answered 400 exactly when no worker is
\* online for d; 500 exactly when a worker was selected and no endpoint
\* record is stored for (that worker, d); otherwise 200 with Address, Port,
\* AllowedIPs and PublicKey of the record stored for (selected worker, d).
C6_V2ResponseByCase ==
  [][\A h \in Handlers :
       /\ Selects(h) =>
            /\ Answered(h, 400) <=> ~\E w \in WorkerNames : OnlineFor(w, http[h].domain)
            /\ ~Answered(h, 400) => response' = response /\ http'[h].best \in WorkerNames
       /\ LooksUp(h) =>
            LET k == <<http[h].best, http[h].domain>>
            IN  IF k \notin DOMAIN worker_data
                THEN Answered(h, 500)
                ELSE /\ Answered(h, 200)
                     /\ response'.body.Address = worker_data[k].ExternalAddress
                     /\ response'.body.Port = ToString(worker_data[k].Port)
                     /\ response'.body.AllowedIPs = <<worker_data[k].LinkAddress>>
                     /\ response'.body.PublicKey = worker_data[k].PublicKey]_vars

\* a v2 request for one domain is answered 200 with the record of that domain
C6_Witness ==
  /\ response.api = "v2"
  /\ response.status = 200
  /\ \E w \in WorkerNames :
       /\ <<w, response.msg["domain"]>> \in DOMAIN worker_data
       /\ response.body.PublicKey = worker_data[<<w, response.msg["domain"]>>].PublicKey

\* C7: every v1 or v2 request that passes validation publishes exactly one
\* message, the public key, on wireguard/<domain>/all, and nothing else is
\* published; in v2 the message is out before the worker is selected, so also
\* when the answer is 400 for no gateway online.
C7_OnePublishPerValidRequest ==
  [][/\ RequestTaken =>
          IF ValidRequest(NewestRequest')
          THEN /\ Len(published') = Len(published) + 1
               /\ SubSeq(published', 1, Len(published)) = published
               /\ published'[Len(published')].topic = BroadcastTopic(NewestRequest'["domain"])
               /\ published'[Len(published')].payload = NewestRequest'["public_key"]
          ELSE published' = published
     /\ ~RequestTaken => published' = published
     /\ \A h \in Handlers :
          Selects(h) =>
            \E i \in 1..Len(published) :
              PublishedFor(i, http[h].domain) /\ published[i].payload = http[h].key]_vars

\* a valid v2 request was answered 400, no gateway being online, and its
\* message is on the bus
C7_Witness ==
  /\ response.api = "v2"
  /\ response.status = 400
  /\ ValidRequest(response.msg)
  /\ Len(published) = nreq
  /\ nreq > 0

\* the online flags of the registry
Flags(reg) == { <<reg[i].worker, reg[i].online>> : i \in 1..Len(reg) }

\* C8: a v2 request that selects worker w for d raises connected_peers of
\* (w, d) by exactly 1 and changes no other metric, no online flag and no
\* endpoint record; the 500 answer does not take the increment back, and no
\* other step of a request changes the registry or the endpoint map.
C8_IncrementAndFrame ==
  [][\A h \in Handlers :
       /\ Updates(h) =>
            /\ \E n \in RecordedPeers(worker_metrics, http[h].best, http[h].domain) :
                 RecordedPeers(worker_metrics', http[h].best, http[h].domain) = {n + 1}
            /\ \A w \in WorkerNames, d \in {DomainA, DomainB} :
                 <<w, d>> # <<http[h].best, http[h].domain>> =>
                   RecordedPeers(worker_metrics', w, d) = RecordedPeers(worker_metrics, w, d)
            /\ Flags(worker_metrics') = Flags(worker_metrics)
            /\ worker_data' = worker_data
       /\ (http[h] # http'[h] /\ ~Updates(h)) =>
            worker_metrics' = worker_metrics /\ worker_data' = worker_data]_vars

\* C9: while no bus message arrives, every increment of a v2 request adds
\* one to the connected_peers recorded at that moment, whatever the other
\* handler thread does, so k requests selecting (w, d) leave it exactly k
\* higher and no increment is lost.
C9_NoLostIncrement ==
  [][\A h \in Handlers :
       Updates(h) =>
         \E n \in RecordedPeers(worker_metrics, http[h].best, http[h].domain) :
           \E m \in RecordedPeers(worker_metrics', http[h].best, http[h].domain) :
             m > n]_vars

(***************************************************************************)
(* From the 200 answer to the peer on the worker (SpecInstall)             *)
(***************************************************************************)
\* the v2 answer 200 to (key, d) carries worker w's endpoint
AnsweredWith(w, d, key) ==
  /\ response.api = "v2"
  /\ response.status = 200
  /\ response.msg = [public_key |-> key, domain |-> d]
  /\ response.body.Address = <<"gw", w>>

\* worker w has key as a WireGuard peer on the interface wg-<suffix of d>
Installed(w, d, key) ==
  \E peer \in netlink[w].wg :
    /\ peer.public_key = key
    /\ peer.interface = <<"w","g","-">> \o SubSeq(d, Len(DomainPrefixes[1]) + 1, Len(d))

\* C3: once the v2 endpoint has answered 200 with worker w's endpoint for
\* (public_key, domain), w eventually has public_key as a WireGuard peer on
\* wg-<suffix of domain>, the bus delivering and netlink succeeding.
C3_AnsweredLeadsToInstalled ==
  \A w \in WorkerNames, msg \in {m \in RequestBodies : ValidRequest(m)} :
    AnsweredWith(w, msg["domain"], msg["public_key"])
      ~> Installed(w, msg["domain"], msg["public_key"])

\* the answer is out and the peer is on the selected worker
C3_Witness ==
  \E w \in WorkerNames, d \in {DomainA, DomainB}, key \in {KeyA, KeyB} :
    AnsweredWith(w, d, key) /\ Installed(w, d, key) /\ q[w] = {}

(***************************************************************************)
(* Properties of the bus callbacks (SpecBus)                               *)
(***************************************************************************)
\* the last status message handled for w had a payload >= 1
LastStatusUp(w) == \E st \in probe.last_status[w] : st >= 1

\* C11: after any sequence of status messages a worker's online flag is true
\* exactly when the payload of the last status message for it was >= 1; a
\* worker with no status message is offline, and a status below 1 for a
\* worker the registry does not hold does not add it.
C11_OnlineFollowsLastStatus ==
  /\ [](\A w \in WorkerNames : RecordedOnlineFlag(w) <=> LastStatusUp(w))
  /\ [][(/\ probe'.op = "status"
         /\ nbus' = nbus + 1
         /\ probe'.payload < 1
         /\ probe'.worker \notin Registered(worker_metrics))
        => worker_metrics' = worker_metrics]_vars

\* status 1 was handled for a worker that had been set offline before, while
\* the other worker, only ever reported offline, is not in the registry
C11_Witness ==
  /\ probe.op = "status"
  /\ probe.payload = 1
  /\ nbus = MaxLoggedMsgs
  /\ RecordedOnlineFlag(probe.worker)
  /\ \E v \in WorkerNames :
       /\ probe.last_status[v] = {0}
       /\ v \notin Registered(worker_metrics)

\* every domain that is a key of the registry's metrics or of the endpoint map
DomainKeys ==
  UNION { DOMAIN worker_metrics[i].domain_data : i \in 1..Len(worker_metrics) }
    \cup { k[2] : k \in DOMAIN worker_data }

\* C15: every domain that is a key in the registry's metrics or in the
\* endpoint map is a configured domain, and a metrics or data message for a
\* domain that is not configured changes neither the registry nor the map.
C15_OnlyConfiguredDomains ==
  /\ [](DomainKeys \subseteq DomainSet)
  /\ [][(/\ nbus' = nbus + 1
         /\ probe'.op \in {"metrics", "data"}
         /\ probe'.domain \notin DomainSet)
        => (worker_metrics' = worker_metrics /\ worker_data' = worker_data)]_vars

\* a data message for an unknown domain was dropped while the registry and
\* the endpoint map hold entries, one of them written by a v2 request
C15_Witness ==
  /\ probe.op = "data"
  /\ probe.domain = DomainUnknown
  /\ DomainKeys # {}
  /\ response.api = "v2"
  /\ response.status = 500

(***************************************************************************)
(* Properties of a worker's presence on the bus (SpecLife)                 *)
(***************************************************************************)
\* the will of w waits on the bus for the broker
WillPending(w) ==
  \E i \in (brx + 1)..Len(bus) : bus[i].by = "will" /\ bus[i].worker = w

\* the broker has just handled the will of w
WillJustHandled(w) ==
  brx > 0 /\ bus[brx].by = "will" /\ bus[brx].worker = w

\* the broker has handled a will of w and no status 1 or more of w since
OfflineByWill(w) ==
  \E i \in 1..brx :
    /\ bus[i].by = "will" /\ bus[i].worker = w
    /\ \A j \in (i + 1)..brx :
         ~(bus[j].kind = "status" /\ bus[j].worker = w /\ bus[j].payload >= 1)

\* C12: when the connection of a worker breaks, the bus gets its will, a
\* retained status 0 of that worker with QoS 1; the broker comes to handle
\* it and then has the worker offline; and from the handling of a will until
\* a status 1 of the worker is handled, the worker is offline in the
\* registry and no call of get_best_worker returns it.
C12_WillMarksOffline ==
  /\ [][\A w \in WorkerNames :
          (mqtt_client[w].connected /\ ~mqtt_client'[w].connected)
            => /\ Len(bus') = Len(bus) + 1
               /\ bus'[Len(bus')].kind = "status"
               /\ bus'[Len(bus')].worker = w
               /\ bus'[Len(bus')].payload = 0
               /\ bus'[Len(bus')].retain
               /\ bus'[Len(bus')].qos >= 1]_vars
  /\ \A w \in WorkerNames :
       WillPending(w) ~> (WillJustHandled(w) /\ ~RecordedOnlineFlag(w))
  /\ [](\A w \in WorkerNames : OfflineByWill(w) => ~RecordedOnlineFlag(w))
  /\ [][\A w \in WorkerNames :
          (OfflineByWill(w) /\ probe' # probe /\ probe'.op = "get_best_worker")
            => probe'.name # w]_vars

\* the will of w1 was handled while w2 was online, and get_best_worker was
\* then called
C12_Witness ==
  /\ OfflineByWill("w1")
  /\ \E i \in 1..brx : bus[i].kind = "status" /\ bus[i].worker = "w1" /\ bus[i].payload = 1
  /\ ~mqtt_client["w1"].connected
  /\ RecordedOnlineFlag("w2")
  /\ probe.op = "get_best_worker"
  /\ probe.name = "w2"

(***************************************************************************)
(* Properties of one worker and its threads (SpecWorker)                   *)
(***************************************************************************)
\* the metrics messages the loop of domain d of worker w has published
MetricsOf(w, d) ==
  { i \in 1..Len(bus) : bus[i].kind = "metrics" /\ bus[i].worker = w /\ bus[i].domain = d }

AllThreadsDone(w) ==
  /\ threads[w].mark_offline = "done"
  /\ \A d \in WorkerDomainSet : threads[w].metrics[d] = "done"

\* C13: once the exit flag of a worker is set, mark_offline_on_exit and
\* every metrics loop come to their end; mark_offline_on_exit, when the
\* client is connected, publishes status 0 of the worker, retained with
\* QoS 1; and the last message a finished metrics loop has published for
\* its domain is -1, retained with QoS 1.
C13_ExitPublishesOffline ==
  /\ \A w \in WorkerNames : exit_event[w] ~> AllThreadsDone(w)
  /\ [][\A w \in WorkerNames :
          (threads[w].mark_offline = "wait" /\ threads'[w].mark_offline = "done"
             /\ mqtt_client[w].connected)
            => bus' = Append(bus, [kind |-> "status", worker |-> w, domain |-> <<>>,
                                   payload |-> 0, qos |-> 1, retain |-> TRUE,
                                   by |-> "mark_offline_on_exit", delivered |-> TRUE])]_vars
  /\ [](\A w \in WorkerNames, d \in WorkerDomainSet :
          threads[w].metrics[d] = "done"
            => /\ MetricsOf(w, d) # {}
               /\ LET last == CHOOSE i \in MetricsOf(w, d) : \A j \in MetricsOf(w, d) : j <= i
                  IN  /\ bus[last].payload = -1
                      /\ bus[last].retain
                      /\ bus[last].qos = 1)

\* w1 went offline on exit while connected: its status 0 and the -1 of both
\* domains reached the bus after a peer count did
C13_Witness ==
  /\ AllThreadsDone("w1")
  /\ mqtt_client["w1"].connected
  /\ \E i \in BusBy("w1", "mark_offline_on_exit") : bus[i].delivered
  /\ \E i \in BusBy("w1", "publish_metrics") : bus[i].payload >= 0
  /\ \A d \in WorkerDomainSet :
       \E i \in MetricsOf("w1", d) : bus[i].payload = -1 /\ bus[i].delivered

C20_LoopsSurviveExceptions ==
  /\ [](\A w \in WorkerNames, d \in WorkerDomainSet :
          /\ threads[w].metrics[d] \in {"unstarted", "test", "finally", "except", "done"}
          /\ threads[w].flusher[d] \in {"sleep", "except"})
  /\ [][\A w \in WorkerNames, d \in WorkerDomainSet :
          (threads[w].metrics[d] = "test" /\ threads'[w].metrics[d] = "except")
            => bus' = bus]_vars
  /\ \A w \in WorkerNames, d \in WorkerDomainSet :
       /\ (threads[w].metrics[d] = "except") ~> (threads[w].metrics[d] = "test")
       /\ (threads[w].flusher[d] = "except") ~> (threads[w].flusher[d] = "sleep")

\* the flusher of f_a has removed the stale peer in a run after one that
\* raised, and the metrics loop of f_a is in its except clause while the
\* loop of f_b has published a count
C20_Witness ==
  /\ Len(calls["w1"]) = 2
  /\ PeerOf(<<"a">>, KeyA) \notin netlink["w1"].wg
  /\ threads["w1"].metrics[DomainA] = "except"
  /\ \E i \in BusBy("w1", "publish_metrics") : bus[i].domain = DomainB

(***************************************************************************)
(* Properties of the queue of a worker (SpecQueue)                         *)
(***************************************************************************)
\* the queue item of the i-th message published
ItemOf(i) == <<TopicDomain(published[i].topic), published[i].payload>>

\* the items of the messages published
QueueItems == { <<TopicDomain(m.topic), m.payload>> : m \in QueueMessages }

\* the number of link_handler calls worker w has made for an item
CallsFor(w, item) ==
  Cardinality({ i \in 1..Len(calls[w]) :
                  calls[w][i].domain = item[1] /\ calls[w][i].public_key = item[2] })

\* the number of messages for an item that worker w has received
ArrivalsOf(w, item) == Cardinality({ i \in 1..rx[w] : ItemOf(i) = item })

\* C16: a message whose item is in the queue leaves queue, calls and kernel
\* as they are; a message whose item is not adds the item; one round of the
\* installer takes one item out of the queue and makes one link_handler
\* call, for that item, with remove unset; so an item has never had more
\* calls, made or still due, than messages, and messages that arrive while
\* it is queued add none.
C16_QueuedOnceInstalledOnce ==
  /\ [][\A w \in WorkerNames :
          rx'[w] = rx[w] + 1
            => /\ calls' = calls /\ netlink' = netlink
               /\ IF ItemOf(rx'[w]) \in q[w] THEN q' = q
                  ELSE q' = [q EXCEPT ![w] = @ \cup {ItemOf(rx'[w])}]]_vars
  /\ [][\A w \in WorkerNames :
          calls'[w] # calls[w]
            => \E item \in q[w] :
                 /\ q' = [q EXCEPT ![w] = @ \ {item}]
                 /\ calls'[w] = Append(calls[w], [public_key |-> item[2],
                                                  domain |-> item[1],
                                                  remove |-> FALSE])]_vars
  /\ [][\A w \in WorkerNames : q'[w] # q[w] => (rx'[w] # rx[w] \/ calls'[w] # calls[w])]_vars
  /\ [](\A w \in WorkerNames, item \in QueueItems :
          CallsFor(w, item) + (IF item \in q[w] THEN 1 ELSE 0) <= ArrivalsOf(w, item))

\* three messages for (a, KeyA) arrived before the installer ran, and it has
\* called link_handler once
C16_Witness ==
  /\ rx["w1"] = 3
  /\ \A i \in 1..3 : ItemOf(i) = <<<<"a">>, KeyA>>
  /\ q["w1"] = {}
  /\ Len(calls["w1"]) = 1
  /\ Installed("w1", DomainA, KeyA)

\* the message of the first arrival of an item at worker w
FirstArrival(w, item) ==
  CHOOSE i \in 1..rx[w] : ItemOf(i) = item /\ \A j \in 1..(i - 1) : ItemOf(j) # item

\* C17: the installer takes the items in the order of their first arrival:
\* while no item has been taken twice, the item a round takes out of the
\* queue arrived before every other item in the queue.
C17_DequeuedInArrivalOrder ==
  [][\A w \in WorkerNames :
       \A item \in q[w] :
         (item \notin q'[w] /\ \A x \in q[w] : CallsFor(w, x) = 0)
           => \A other \in q[w] : FirstArrival(w, item) <= FirstArrival(w, other)]_vars

\* C18: no failure of a netlink operation ends the installer thread, and an
\* item in the queue is eventually taken out of it.
C18_InstallerSurvivesFailures ==
  /\ [](\A w \in WorkerNames : InstallerRuns(w))
  /\ \A w \in WorkerNames, item \in QueueItems :
       (item \in q[w]) ~> (item \notin q[w])

(***************************************************************************)
(* Properties of the flusher (SpecFlush)                                   *)
(***************************************************************************)
\* the interface a run of the flusher for domain d looks at
FlushedInterface(d) == <<"w","g","-">> \o CleanedDomain(d, DomainPrefixes, 1)

\* the removals worker w issues in this step for a key on the interface of d
RemovalsIn(w, d, key) ==
  Cardinality({ i \in (Len(calls[w]) + 1)..Len(calls'[w]) :
                  /\ calls'[w][i].remove
                  /\ calls'[w][i].public_key = key
                  /\ <<"w","g","-">> \o calls'[w][i].domain = FlushedInterface(d) })

\* a run of the flusher of w1 that went through without an exception
CompleteRun ==
  /\ probe'.op = "flush_workers"
  /\ probe'.failure = NoFailure
  /\ probe' # probe \/ calls' # calls

OnWhitelist(key) == \E i \in 1..Len(key_whitelist) : key_whitelist[i] = key

InitV3 ==
  \E file \in StoredFiles \cup FreshFiles, length \in StoredLengths, xlat \in BOOLEAN :
    /\ BrokerStartedWith(WeightedConfig, NoProbe,
                         [ParkerAtStart EXCEPT !.file = file, !.length = length,
                                               !.xlat = xlat])
    /\ WorkersStarted

V3Request == \E h \in Handlers, args \in V3Queries : V3KeyExchange(h, args)

NextV3 == V3Request

SpecV3 == InitV3 /\ [][NextV3]_vars

(***************************************************************************)
(* The worker w1 and payloads of any kind on wireguard/<domain>/all: a     *)
(* public key, a text that is no key, and a key with a wrong last group.   *)
(***************************************************************************)
MaxPayloadMsgs == 3
Payloads == {KeyA, KeyShort, KeyBadTail}

PayloadPublish ==
  \E payload \in Payloads :
    /\ Len(published) < MaxPayloadMsgs
    /\ published' = Publish(published, WireguardTopic(DomainA, GatewayAll), payload)
    /\ UNCHANGED <<workers_cfg, worker_metrics, worker_data, blacklist, allowlist, parker,
                   http, response, nreq, nbus, probe, worker_vars>>

PayloadDeliver == Deliver("w1")
PayloadInstall == pick_from_queue("w1")

NextPayload == PayloadPublish \/ PayloadDeliver \/ PayloadInstall

SpecPayload == Init /\ [][NextPayload]_vars

(***************************************************************************)
(* The installer and the flusher of worker w1 on peers that are new: the   *)
(* kernel of w1 starts without a peer, every peer is added by the          *)
(* installer while the clock runs through Clocks, and no peer completes a  *)
(* handshake.  The kernel lists the last handshake time of such a peer as  *)
(* zero seconds, or the dump carries no time for it.                       *)
(***************************************************************************)
MaxFreshMsgs == 2
FreshKeys == {KeyA, KeyC}

InitFresh ==
  /\ BrokerStarted(WeightedConfig, NoRun)
  /\ WorkersStarted

FreshPublish ==
  \E k \in FreshKeys :
    /\ Len(published) < MaxFreshMsgs
    /\ published' = Publish(published, WireguardTopic(DomainA, GatewayAll), k)
    /\ UNCHANGED <<workers_cfg, worker_metrics, worker_data, blacklist, allowlist, parker,
                   http, response, nreq, nbus, probe, worker_vars>>

FreshDeliver == Deliver("w1")
FreshInstall == pick_from_queue("w1")

\* WGPEER_A_LAST_HANDSHAKE_TIME of a peer without a handshake: tv_sec 0
ZeroHandshakeTime ==
  \E p \in netlink["w1"].wg \ DOMAIN handshakes["w1"] :
    /\ handshakes' = [handshakes EXCEPT !["w1"] =
                        [x \in (DOMAIN @) \cup {p} |-> IF x = p THEN 0 ELSE @[x]]]
    /\ UNCHANGED <<queue_vars, broker_vars, mqtt_client, exit_event, threads, bus, brx,
                   calls>>

FreshFlush ==
  \E d \in WorkerDomainSet, now \in Clocks :
    /\ flush_workers("w1", d, now, NoFailure)
    /\ probe' = [op |-> "flush_workers", domain |-> d, now |-> now, failure |-> NoFailure]

NextFresh ==
  FreshPublish \/ FreshDeliver \/ FreshInstall \/ ZeroHandshakeTime \/ FreshFlush

SpecFresh == InitFresh /\ [][NextFresh]_vars

(***************************************************************************)
(* The broker right after a start: its registry and its endpoint records   *)
(* are empty, handle_mqtt_connect has subscribed to the metrics, status    *)
(* and data topics, and the bus hands it what it retains for them.  MQTT   *)
(* orders the messages of one topic only, so the retained messages come in *)
(* any order.  probe holds those still to come.                            *)
(***************************************************************************)
\* the retained messages by their place in RetainedMessages
RetainedSet == 1..Len(RetainedMessages)

InitReplay == StartedProbing(WeightedConfig, [pending |-> RetainedSet])

ReplayRetained ==
  \E i \in probe.pending :
    /\ probe' = [pending |-> probe.pending \ {i}]
    /\ UNCHANGED <<nbus, worker_vars>>
    /\ LET m == RetainedMessages[i]
       IN  CASE m.kind = "metrics" ->
                  handle_mqtt_message_metrics(m.domain, m.worker, CONNECTED_PEERS_METRIC,
                                              m.payload)
             [] m.kind = "status" -> handle_mqtt_message_status(m.worker, m.payload)
             [] m.kind = "data" -> handle_mqtt_message_data(m.worker, m.domain, m.payload)

NextReplay ==
  \/ ReplayRetained
  \/ V2RequestInTurn \/ V2SelectStep \/ V2ReadStep \/ V2UpdateStep \/ V2LookupStep

SpecReplay == InitReplay /\ [][NextReplay]_vars

(***************************************************************************)
(* The metrics thread of worker w1 with dumps that are interrupted: KeyA   *)
(* and KeyC are on wg-a, KeyC with a handshake that is inside the three    *)
(* minutes at the first clock value and outside at the second.             *)
(***************************************************************************)
MaxDumpMetrics == 2

InitDump ==
  /\ BrokerStarted(WeightedConfig, NoDump)
  /\ WorkersWith(
       [w \in WorkerNames |->
          IF w = "w1" THEN InstallAll(NoPeers, {<<<<"a">>, KeyA>>, <<<<"a">>, KeyC>>})
          ELSE NoPeers],
       [w \in WorkerNames |->
          IF w = "w1"
          THEN [p \in {PeerOf(<<"a">>, KeyA), PeerOf(<<"a">>, KeyC)} |->
                  IF p.public_key = KeyA THEN 0 ELSE 4 * 3600 - ConnectedWindow + 1]
          ELSE EmptyDict])

DumpConnect == connect("w1")
DumpOnConnect ==
  /\ BusBy("w1", "on_connect") = {}
  /\ on_connect("w1", CONNACK_ACCEPTED)
DumpMetrics ==
  \E d \in WorkerDomainSet, dumps \in [1..2 -> DumpOutcomes], now \in Clocks :
    /\ Cardinality(BusBy("w1", "publish_metrics")) < MaxDumpMetrics
    /\ publish_metrics("w1", d, dumps, now)
DumpMetricsWait == \E d \in WorkerDomainSet : publish_metrics_wait("w1", d)

NextDump == DumpConnect \/ DumpOnConnect \/ DumpMetrics \/ DumpMetricsWait

SpecDump == InitDump /\ [][NextDump]_vars

(***************************************************************************)
(* link_handler on its own: calls for installs and removals on the kernel  *)
(* of worker w1, with netlink operations that raise.  probe is the last    *)
(* call.                                                                   *)
(***************************************************************************)
NoLinkCall ==
  [op |-> "", client |-> [public_key |-> <<>>, domain |-> <<>>, remove |-> FALSE],
   failing |-> {}, raised |-> FALSE, attempted |-> <<>>, results |-> EmptyDict]

LinkClients ==
  [public_key : {KeyA, KeyB}, domain : {<<"a">>}, remove : BOOLEAN]

CallLinkHandler ==
  \E client \in LinkClients, failing \in SUBSET NetlinkOperations :
    LET run == link_handler_calls(netlink["w1"], client, failing)
    IN  /\ netlink' = [netlink EXCEPT !["w1"] = run.kernel]
        /\ handshakes' = [handshakes EXCEPT !["w1"] = ShakesOf(run.kernel, @)]
        /\ calls' = [calls EXCEPT !["w1"] = <<client>>]
        /\ probe' = [op |-> "link_handler", client |-> client, failing |-> failing,
                     raised |-> run.raised, attempted |-> run.attempted,
                     results |-> run.results]
        /\ UNCHANGED <<rx, q, workers_cfg, worker_metrics, worker_data, blacklist,
                       allowlist, parker, published, http, response, nreq, nbus,
                       mqtt_client, exit_event, bus, brx, threads>>

InitLink == StartedProbing(WeightedConfig, NoLinkCall)
NextLink == CallLinkHandler
SpecLink == InitLink /\ [][NextLink]_vars

(***************************************************************************)
(* get_best_worker one loop at a time, while the bus thread updates the    *)
(* registry.  probe is the call: where it stands, the size of the dict     *)
(* when the iterator of the running loop was made, total_peers, the best   *)
(* candidates so far, and every registry state since the call began.       *)
(***************************************************************************)
MaxSnapshotMsgs == 3

NoSnapshotCall ==
  [pc |-> "idle", domain |-> <<>>, pop |-> 0, size |-> 0, total_peers |-> 0,
   selected |-> <<>>, states |-> {}, raised |-> FALSE, result |-> NoWorker]

\* the candidates of one PoP from the registry as it is now, with the
\* total_peers that get_total_peer_count returned earlier in the call
candidates_after(cfg, reg, domain, pop, total_peers) ==
  LET Keep(wm) == WorkerPop(cfg, wm.worker) = pop /\ is_online(wm, domain)
      kept == SelectSeq(reg, Keep)
  IN  [i \in 1..Len(kept) |-> WorkerResult(cfg, kept[i], total_peers)]

\* the tuple get_best_worker returns for the best candidates of the PoPs
best_of(workers) ==
  IF Len(workers) = 0 THEN NoWorker
  ELSE LET worker == SortedFirst(workers)
       IN  [name |-> worker.name, diff |-> worker.diff, peers |-> worker.peers]

\* a dict iterator raises RuntimeError at its next step when the dict has
\* changed size since the iterator was made
RaisedCall(call) == [call EXCEPT !.pc = "returned", !.raised = TRUE]

\* get_best_worker(domain) is called
SnapshotCall ==
  \E d \in {DomainA, DomainB} :
    /\ probe.pc = "idle"
    /\ probe' = IF Len(all_pops(workers_cfg)) = 0
                THEN [NoSnapshotCall EXCEPT !.pc = "returned", !.domain = d,
                                            !.states = {worker_metrics}]
                ELSE [NoSnapshotCall EXCEPT !.pc = "total_iter", !.domain = d, !.pop = 1,
                                            !.states = {worker_metrics}]
    /\ UNCHANGED <<workers_cfg, worker_metrics, worker_data, blacklist,
                   allowlist, parker, published, http, response, nreq, nbus, worker_vars>>

\* get_total_peer_count: for worker in self.data
SnapshotTotalIter ==
  /\ probe.pc = "total_iter"
  /\ probe' = [probe EXCEPT !.pc = "total_next", !.size = Len(worker_metrics)]
  /\ UNCHANGED <<workers_cfg, worker_metrics, worker_data, blacklist,
                 allowlist, parker, published, http, response, nreq, nbus, worker_vars>>

\* get_total_peer_count: the loop runs to its end
SnapshotTotal ==
  /\ probe.pc = "total_next"
  /\ probe' = IF Len(worker_metrics) # probe.size THEN RaisedCall(probe)
              ELSE [probe EXCEPT !.pc = "values_iter",
                                 !.total_peers = get_total_peer_count(worker_metrics)]
  /\ UNCHANGED <<workers_cfg, worker_metrics, worker_data, blacklist,
                 allowlist, parker, published, http, response, nreq, nbus, worker_vars>>

\* get_best_workers: for wm in self.data.values()
SnapshotValuesIter ==
  /\ probe.pc = "values_iter"
  /\ probe' = [probe EXCEPT !.pc = "values_next", !.size = Len(worker_metrics)]
  /\ UNCHANGED <<workers_cfg, worker_metrics, worker_data, blacklist,
                 allowlist, parker, published, http, response, nreq, nbus, worker_vars>>

\* get_best_workers: the loop over the workers runs to its end, the best
\* candidate of the PoP is kept, and after the last PoP get_best_worker returns
SnapshotValues ==
  /\ probe.pc = "values_next"
  /\ LET pops == all_pops(workers_cfg)
         found == candidates_after(workers_cfg, worker_metrics, probe.domain,
                                   pops[probe.pop], probe.total_peers)
         selected == IF found = <<>> THEN probe.selected
                     ELSE Append(probe.selected, SortedFirst(found))
     IN  probe' = IF Len(worker_metrics) # probe.size THEN RaisedCall(probe)
                  ELSE IF probe.pop < Len(pops)
                  THEN [probe EXCEPT !.pc = "total_iter", !.pop = @ + 1,
                                     !.selected = selected]
                  ELSE [probe EXCEPT !.pc = "returned", !.selected = selected,
                                     !.result = best_of(selected)]
  /\ UNCHANGED <<workers_cfg, worker_metrics, worker_data, blacklist,
                 allowlist, parker, published, http, response, nreq, nbus, worker_vars>>

\* the registry states that existed between the call and its return
SeenBy(call, reg) ==
  IF call.pc \in {"idle", "returned"} THEN call
  ELSE [call EXCEPT !.states = @ \cup {reg}]

SnapshotMetrics ==
  \E d \in {DomainA, DomainB}, w \in WorkerNames, v \in MetricPayloads :
    /\ nbus < MaxSnapshotMsgs
    /\ nbus' = nbus + 1
    /\ handle_mqtt_message_metrics(d, w, CONNECTED_PEERS_METRIC, v)
    /\ probe' = SeenBy(probe, worker_metrics')
    /\ UNCHANGED worker_vars

SnapshotStatus ==
  \E w \in WorkerNames, st \in StatusPayloads :
    /\ nbus < MaxSnapshotMsgs
    /\ nbus' = nbus + 1
    /\ handle_mqtt_message_status(w, st)
    /\ probe' = SeenBy(probe, worker_metrics')
    /\ UNCHANGED worker_vars

InitSnapshot == StartedProbing(WeightedConfig, NoSnapshotCall)

NextSnapshot ==
  \/ SnapshotCall \/ SnapshotTotalIter \/ SnapshotTotal
  \/ SnapshotValuesIter \/ SnapshotValues
  \/ SnapshotMetrics \/ SnapshotStatus

SpecSnapshot == InitSnapshot /\ [][NextSnapshot]_vars

(***************************************************************************)
(* The broker with the last value stored by the bus on record: probe holds *)
(* the worker, the domain and the value of the last metrics message that   *)
(* was stored, and the requests that had read connected_peers of that      *)
(* worker and domain and not yet written their increment.                  *)
(***************************************************************************)
NoStore == [worker |-> "", domain |-> <<>>, peers |-> 0, readers |-> {}]

\* the requests between their read of connected_peers of (w, d) and their update
ReadersOf(w, d) ==
  {<<h, http[h].seq>> : h \in {g \in Handlers : /\ http[g].pc = "update"
                                                /\ http[g].best = w
                                                /\ http[g].domain = d}}

StoreMetrics ==
  /\ nbus < MaxBusMsgs
  /\ nbus' = nbus + 1
  /\ UNCHANGED worker_vars
  /\ \E d \in BusDomains, w \in BusWorkers, v \in MetricPayloads :
       /\ handle_mqtt_message_metrics(d, w, CONNECTED_PEERS_METRIC, v)
       /\ probe' = IF is_valid_domain(d) /\ w # ""
                   THEN [worker |-> w, domain |-> d, peers |-> v,
                         readers |-> ReadersOf(w, d)]
                   ELSE probe

InitOverwrite == StartedProbing(WeightedConfig, NoStore)

NextOverwrite ==
  \/ StoreMetrics \/ BusStatus
  \/ V2Request \/ V2SelectStep \/ V2ReadStep \/ V2UpdateStep \/ V2LookupStep

SpecOverwrite == InitOverwrite /\ [][NextOverwrite]_vars

(***************************************************************************)
(* The installer and the flusher of worker w1 side by side: two peers on   *)
(* wg-a whose last handshake is older than three hours ask for their key   *)
(* exchange again.                                                         *)
(***************************************************************************)
MaxInterleaveMsgs == 2
InterleaveKeys == {KeyA, KeyC}

InitInterleave ==
  /\ BrokerStarted(WeightedConfig, NoProbe)
  /\ WorkersWith(
       [w \in WorkerNames |->
          IF w = "w1" THEN InstallAll(NoPeers, {<<<<"a">>, k>> : k \in InterleaveKeys})
          ELSE NoPeers],
       [w \in WorkerNames |->
          IF w = "w1" THEN [p \in {PeerOf(<<"a">>, k) : k \in InterleaveKeys} |-> 0]
          ELSE EmptyDict])

InterleavePublish ==
  \E k \in InterleaveKeys :
    /\ Len(published) < MaxInterleaveMsgs
    /\ published' = Publish(published, WireguardTopic(DomainA, GatewayAll), k)
    /\ UNCHANGED <<workers_cfg, worker_metrics, worker_data, blacklist, allowlist, parker,
                   http, response, nreq, nbus, probe, worker_vars>>

InterleaveDeliver == Deliver("w1")
InstallerGets == pick_from_queue_get("w1")
InstallerOperation == pick_from_queue_operation("w1")
FlusherFinds == \E now \in Clocks : wg_flush_stale_peers_find("w1", DomainA, now)
FlusherOperation == wg_flush_stale_peers_operation("w1", DomainA)

NextInterleave ==
  \/ InterleavePublish
  \/ InterleaveDeliver
  \/ InstallerGets
  \/ InstallerOperation
  \/ FlusherFinds
  \/ FlusherOperation

SpecInterleave == InitInterleave /\ [][NextInterleave]_vars

(***************************************************************************)
(* get_best_worker called with a location, on the registries the bus       *)
(* handlers build for workers configured at two locations.                 *)
(***************************************************************************)
Locations == {"MUC", "Vienna", "Berlin"}
\* the 'workers' key with a location per worker; Worker.from_dict reads the
\* weight only
LocatedConfig ==
  [w \in {"w1", "w2"} |->
     [weight |-> 1, location |-> IF w = "w1" THEN "MUC" ELSE "Vienna"]]

NoLocationProbe ==
  [op |-> "", domain |-> <<>>, location |-> "", raised |-> FALSE, name |-> None]

\* worker_metrics.get_best_worker(domain, location=...): the method takes
\* self and domain, so binding the keyword raises TypeError and no worker
\* is returned
get_best_worker_location(cfg, reg, domain, location) ==
  [raised |-> TRUE, name |-> None]

CallGetBestWorkerLocation ==
  \E d \in {DomainA, DomainB}, l \in Locations :
    /\ LET r == get_best_worker_location(workers_cfg, worker_metrics, d, l)
       IN  probe' = [op |-> "get_best_worker", domain |-> d, location |-> l,
                     raised |-> r.raised, name |-> r.name]
    /\ UNCHANGED <<workers_cfg, worker_metrics, worker_data, blacklist,
                   allowlist, parker, published, http, response, nreq, nbus, worker_vars>>

LocationMetrics ==
  \E d \in BusDomains, w \in BusWorkers, v \in MetricPayloads :
    /\ handle_mqtt_message_metrics(d, w, CONNECTED_PEERS_METRIC, v)
    /\ probe' = NoLocationProbe
    /\ UNCHANGED <<nbus, worker_vars>>

LocationStatus ==
  \E w \in WorkerNames, st \in StatusPayloads :
    /\ handle_mqtt_message_status(w, st)
    /\ probe' = NoLocationProbe
    /\ UNCHANGED <<nbus, worker_vars>>

InitLocation == StartedProbing(LocatedConfig, NoLocationProbe)

NextLocation == LocationMetrics \/ LocationStatus \/ CallGetBestWorkerLocation

SpecLocation == InitLocation /\ [][NextLocation]_vars

(***************************************************************************)
(* wgkex/worker/app.py: main() on the configurations a worker may be       *)
(* started with.                                                           *)
(***************************************************************************)
\* a domain with the suffix of DomainA under another prefix, and one that
\* holds the prefix but does not begin with it
DomainOtherPrefix == <<"g","_","a">>
DomainInside == <<"x","f","_","a">>
MainDomains == {DomainA, DomainB, DomainNoPrefix, DomainOtherPrefix, DomainInside}
MainPrefixes == {<<>>, DomainPrefixes, DomainPrefixes \o << <<"g","_">> >>}
MaxMainDomains == 2
MainConfigs ==
  { [domains |-> ds, prefixes |-> ps, parker_enabled |-> pe] :
      ds \in UNION {[1..n -> MainDomains] : n \in 0..MaxMainDomains},
      ps \in MainPrefixes, pe \in BOOLEAN }

\* check_all_domains_unique that finds every list of domains unique
check_all_domains_unique_always(domains, prefixes) == TRUE

\* check_all_domains_unique, for a non-empty list of prefixes: every prefix
\* that occurs in a domain gives domain.split(prefix)[1], and the first one
\* of these that was already seen makes the result False
check_all_domains_unique(domains, prefixes) ==
  LET hits == {h \in (1..Len(domains)) \X (1..Len(prefixes)) :
                 ~SplitHasNoSecond(domains[h[1]], prefixes[h[2]])}
      stripped_domain(h) == SplitSecond(domains[h[1]], prefixes[h[2]])
  IN  \A g, h \in hits : g # h => stripped_domain(g) # stripped_domain(h)

\* is_valid_domain under the configuration cfg
is_valid_domain_under(cfg, domain) ==
  /\ \E i \in 1..Len(cfg.domains) : cfg.domains[i] = domain
  /\ \E i \in 1..Len(cfg.prefixes) : StartsWith(domain, cfg.prefixes[i])

\* main() up to clean_up_worker: the exception it raises, or "started"
main_checks(cfg) ==
  IF cfg.parker_enabled THEN "started"
  ELSE IF cfg.domains = <<>> THEN "DomainsNotInConfig"
  ELSE IF cfg.prefixes = <<>> THEN "PrefixesNotInConfig"
  ELSE IF ~check_all_domains_unique(cfg.domains, cfg.prefixes) THEN "DomainsAreNotUnique"
  ELSE IF \E i \in 1..Len(cfg.domains) : ~is_valid_domain_under(cfg, cfg.domains[i])
  THEN "InvalidDomain"
  ELSE "started"

\* a worker process before main() has run
ThreadsBeforeMain ==
  [installer |-> "unstarted",
   mark_offline |-> "unstarted",
   metrics |-> [d \in WorkerDomainSet |-> "unstarted"],
   flusher |-> [d \in WorkerDomainSet |-> "unstarted"],
   link |-> NoLinks]

Configured(cfg, d) == \E i \in 1..Len(cfg.domains) : cfg.domains[i] = d
Cleanable(cfg, d) ==
  /\ Configured(cfg, d)
  /\ \E i \in 1..Len(cfg.prefixes) : ~SplitHasNoSecond(d, cfg.prefixes[i])

\* main() of worker w under the configuration in probe: the checks, then
\* clean_up_worker (a flusher per domain that holds a prefix), watch_queue
\* (the installer) and mqtt.connect (the client with its will, the
\* mark_offline_on_exit thread, a metrics thread per configured domain)
main(w) ==
  /\ probe.outcome[w] = "pending"
  /\ LET cfg == probe.config
         outcome == main_checks(cfg)
     IN  /\ probe' = [probe EXCEPT !.outcome[w] = outcome]
         /\ IF outcome # "started"
            THEN UNCHANGED <<threads, mqtt_client>>
            ELSE /\ threads' = [threads EXCEPT ![w] =
                      [installer |-> "run",
                       mark_offline |-> "wait",
                       metrics |-> [d \in WorkerDomainSet |->
                                      IF ~cfg.parker_enabled /\ Configured(cfg, d)
                                      THEN "test" ELSE "unstarted"],
                       flusher |-> [d \in WorkerDomainSet |->
                                      IF ~cfg.parker_enabled /\ Cleanable(cfg, d)
                                      THEN "sleep" ELSE "unstarted"],
                       link |-> NoLinks]]
                 /\ mqtt_client' = [mqtt_client EXCEPT
                                      ![w].started = TRUE,
                                      ![w].will = <<StatusMsg(w, 0, "will")>>]
  /\ UNCHANGED <<workers_cfg, worker_metrics, worker_data, blacklist, allowlist, parker,
                 published, http, response, nreq, nbus, queue_vars, exit_event, bus,
                 brx, calls, handshakes>>

InitMain ==
  \E cfg \in MainConfigs :
    /\ BrokerStarted(WeightedConfig,
                     [config |-> cfg, outcome |-> [w \in WorkerNames |-> "pending"]])
    /\ rx = [w \in WorkerNames |-> 0]
    /\ q = [w \in WorkerNames |-> {}]
    /\ netlink = [w \in WorkerNames |-> NoPeers]
    /\ mqtt_client = [w \in WorkerNames |-> NoClient]
    /\ exit_event = [w \in WorkerNames |-> FALSE]
    /\ threads = [w \in WorkerNames |-> ThreadsBeforeMain]
    /\ bus = <<>>
    /\ brx = 0
    /\ calls = [w \in WorkerNames |-> <<>>]
    /\ handshakes = [w \in WorkerNames |-> EmptyDict]

MainRuns == \E w \in WorkerNames : main(w)

NextMain == MainRuns

SpecMain == InitMain /\ [][NextMain]_vars

(***************************************************************************)
(* The suffix of a domain as the three places of the worker derive it: the *)
(* regex of on_message_wireguard on the topic, wg_interface_name, and      *)
(* clean_up_worker for the flusher.  Init draws a configuration; every     *)
(* step is a message on wireguard/<domain>/all for a configured domain of  *)
(* a worker whose main() got past its checks.  probe holds the             *)
(* configuration and what the three places made of the last message.       *)
(***************************************************************************)
DomainHyphen == <<"f","_","a","-","b">>
DomainTwice == <<"f","_","f","_","a">>
DomainBoth == <<"g","_","f","_","a">>
SuffixDomains == {DomainA, DomainB, DomainHyphen, DomainTwice, DomainBoth, DomainInside}
SuffixPrefixes == {DomainPrefixes, DomainPrefixes \o << <<"g","_">> >>}
MaxSuffixDomains == 2
SuffixConfigs ==
  { [domains |-> ds, prefixes |-> ps, parker_enabled |-> FALSE] :
      ds \in UNION {[1..n -> SuffixDomains] : n \in 1..MaxSuffixDomains},
      ps \in SuffixPrefixes }

\* clean_up_worker: the cleaned_domain of every flush_workers thread it
\* starts for a domain, one for each prefix that occurs in the domain
clean_up_worker(cfg, domain) ==
  { SplitSecond(domain, cfg.prefixes[i]) :
      i \in { n \in 1..Len(cfg.prefixes) : ~SplitHasNoSecond(domain, cfg.prefixes[n]) } }

NoSuffixes ==
  [domain |-> <<>>, queued |-> <<>>, interface |-> <<>>, flushed |-> {}]

InitSuffix ==
  \E cfg \in SuffixConfigs :
    /\ BrokerStarted(WeightedConfig, [config |-> cfg, last |-> NoSuffixes])
    /\ WorkersStarted

\* a message with the key on wireguard/<domain>/all reaches w1, whose
\* configuration is the one in probe
SuffixMessage ==
  \E i \in 1..Len(probe.config.domains), key \in {KeyA, KeyB} :
    LET cfg == probe.config
        d == cfg.domains[i]
        domain == FirstMatch(WireguardTopic(d, GatewayAll), cfg.prefixes, 1)
    IN  /\ main_checks(cfg) = "started"
        /\ q' = [q EXCEPT !["w1"] =
                   IF domain = <<>> THEN @ ELSE QueuePut(@, <<domain, key>>)]
        /\ probe' = [probe EXCEPT !.last =
                       [domain |-> d, queued |-> domain,
                        interface |-> CleanedDomain(d, cfg.prefixes, 1),
                        flushed |-> clean_up_worker(cfg, d)]]
        /\ UNCHANGED <<workers_cfg, worker_metrics, worker_data, blacklist, allowlist,
                       parker, published, http, response, nreq, nbus, rx, netlink,
                       life_vars>>

NextSuffix == SuffixMessage

SpecSuffix == InitSuffix /\ [][NextSuffix]_vars

(***************************************************************************)
(* The broker with equally weighted workers whose peer counts and status   *)
(* have arrived before the first request and with no bus message after     *)
(* that: one handler thread runs v2 requests, one after the other.  probe  *)
(* holds the spread of the peer counts before the first request.           *)
(***************************************************************************)
EqualConfig == [w \in WorkerNames |-> [weight |-> 1]]
MaxInitialPeers == 2
BalanceDomains == {DomainA, DomainB}
InitialPeers == [WorkerNames \X BalanceDomains -> -1 .. MaxInitialPeers]
WorkerOrders == { <<"w1", "w2">>, <<"w2", "w1">> }

\* the registry after worker w sent its peer counts and its status
RegistryWith(reg, w, peers) ==
  set_online(update(update(reg, w, DomainA, CONNECTED_PEERS_METRIC, peers[<<w, DomainA>>]),
                    w, DomainB, CONNECTED_PEERS_METRIC, peers[<<w, DomainB>>]),
             w)

\* the largest and the smallest WorkerMetrics.get_peer_count of the registry
MaxPeerCount(reg) ==
  CHOOSE n \in { get_peer_count(reg[i]) : i \in 1..Len(reg) } :
    \A j \in 1..Len(reg) : get_peer_count(reg[j]) <= n
MinPeerCount(reg) ==
  CHOOSE n \in { get_peer_count(reg[i]) : i \in 1..Len(reg) } :
    \A j \in 1..Len(reg) : get_peer_count(reg[j]) >= n
Spread(reg) == MaxPeerCount(reg) - MinPeerCount(reg)

InitBalance ==
  \E peers \in InitialPeers, order \in WorkerOrders :
    LET reg == RegistryWith(RegistryWith(<<>>, order[1], peers), order[2], peers)
    IN  /\ workers_cfg = EqualConfig
        /\ worker_metrics = reg
        /\ worker_data = [k \in WorkerNames \X BalanceDomains |-> WgData(k[1], k[2]).value]
        /\ blacklist = {KeyB}
        /\ allowlist = [d \in {DomainA} |-> {KeyA}]
        /\ parker = ParkerAtStart
        /\ published = <<>>
        /\ http = [h \in Handlers |-> IdleHandler]
        /\ response = NoResponse
        /\ nreq = 0
        /\ nbus = 0
        /\ probe = [spread |-> Spread(reg)]
        /\ WorkersStarted

BalanceRequest ==
  /\ UNCHANGED worker_vars
  /\ \E msg \in RequestBodies : V2Begin(1, msg)

NextBalance ==
  \/ BalanceRequest
  \/ V2SelectStep \/ V2ReadStep \/ V2UpdateStep \/ V2LookupStep

SpecBalance == InitBalance /\ [][NextBalance]_vars

(***************************************************************************)
(* The allow-list and the deny-list of the broker, reloaded from files     *)
(* that change between the reloads.                                        *)
(***************************************************************************)
NoReload == [list |-> "none", file |-> MissingList, raised |-> FALSE]

AllowlistFiles ==
  { MissingList, EmptyList, MalformedList,
    YamlList("dict", <<Entry(DomainA, TRUE, <<KeyA, KeyB>>)>>),
    YamlList("dict", <<Entry(DomainA, TRUE, <<KeyC>>), Entry(DomainB, FALSE, <<>>)>>),
    YamlList("dict", <<Entry(DomainB, TRUE, <<>>)>>),
    YamlList("list", <<Entry(KeyA, FALSE, <<>>)>>) }

BlacklistFiles ==
  { MissingList, EmptyList, MalformedList,
    YamlList("list", <<Entry(KeyA, FALSE, <<>>), Entry(<<>>, TRUE, <<KeyC>>)>>),
    YamlList("list", <<Entry(KeyC, FALSE, <<>>)>>),
    YamlList("dict", <<Entry(KeyA, FALSE, <<>>), Entry(KeyB, TRUE, <<>>)>>),
    YamlList("text", <<>>) }

\* AllowlistManager.reload on what is at allowlist_file now
AllowlistReload ==
  \E file \in AllowlistFiles :
    /\ allowlist' = reload(allowlist, file).allowlist
    /\ probe' = [list |-> "allow", file |-> file, raised |-> reload(allowlist, file).raised]
    /\ UNCHANGED <<workers_cfg, worker_metrics, worker_data, blacklist, parker,
                   published, http, response, nreq, nbus, worker_vars>>

\* Blacklist.reload on what is at filepath now
BlacklistReload ==
  \E file \in BlacklistFiles :
    /\ blacklist' = _load_blacklist(blacklist, file)
    /\ probe' = [list |-> "deny", file |-> file, raised |-> FALSE]
    /\ UNCHANGED <<workers_cfg, worker_metrics, worker_data, allowlist, parker,
                   published, http, response, nreq, nbus, worker_vars>>

InitLists == StartedProbing(WeightedConfig, NoReload)

NextLists == AllowlistReload \/ BlacklistReload

SpecLists == InitLists /\ [][NextLists]_vars

(***************************************************************************)
(* C21, C22, C23: JSONFileIPAM, one call at a time                         *)
(***************************************************************************)
ReturnedFor(key) == {r \in parker.returned : r.key = key}
StoredRange(key) == DictGet(parker.file.ranges, key, NoNet)

\* C21: once get_or_allocate_prefix has returned a prefix for a key, every
\* later call for that key returns the same prefix, whatever calls for other
\* keys were made in between, and the ranges file keeps that assignment.
C21_AssignmentIsStable ==
  \A r \in parker.returned :
    /\ ReturnedFor(r.key) = {r}
    /\ StoredRange(r.key) = r.net
    /\ parker.last.key = r.key => ~parker.last.raised /\ parker.last.range6 = r.net

\* KeyC got the first candidate of the default parent, KeyD the second one
\* after it, and the call made last is again one for KeyC
C21_Witness ==
  /\ [key |-> KeyC, net |-> Net(10, 3)] \in parker.returned
  /\ [key |-> KeyD, net |-> Net(12, 3)] \in parker.returned
  /\ parker.last.key = KeyC
  /\ parker.last.range6 = Net(10, 3)

\* C22: with one prefix length and one parent prefix, the prefixes assigned
\* to two different keys never overlap, neither those returned nor those in
\* the ranges file.
C22_AssignedPrefixesDisjoint ==
  /\ \A r1, r2 \in parker.returned : r1.key # r2.key => ~overlaps(r1.net, r2.net)
  /\ \A k1, k2 \in DOMAIN parker.file.ranges :
       k1 # k2 => ~overlaps(parker.file.ranges[k1], parker.file.ranges[k2])

\* three keys hold the three candidates of the default parent
C22_Witness ==
  /\ Cardinality(parker.returned) = 3
  /\ Cardinality(DOMAIN parker.file.ranges) = 3
  /\ parker.last.range6 = Net(14, 3)

\* C23: a prefix that get_or_allocate_prefix returns is a subnet of the
\* parent prefix the call read from the ranges file.
C23_ReturnedInsideParent ==
  (~parker.last.raised /\ parker.last.range6 # NoNet)
    => subnet_of(parker.last.range6, parker.last.parent)

(***************************************************************************)
(* C24: JSONFileIPAM under the handler threads                             *)
(***************************************************************************)
\* C24: calls of get_or_allocate_prefix that run side by side in the handler
\* threads leave what calls in some order would leave: once no call is under
\* way, two different keys hold no equal or overlapping prefixes, and every
\* prefix returned to a caller is the one the ranges file has for its key.
C24_ConcurrentCallsSerializable ==
  NoCallUnderWay =>
    /\ \A r1, r2 \in parker.returned : r1.key # r2.key => ~overlaps(r1.net, r2.net)
    /\ \A r \in parker.returned : StoredRange(r.key) = r.net

(***************************************************************************)
(* C25: the v3 API when the IPAM gives no prefix                           *)
(***************************************************************************)
\* the step is a v3 request with a valid query, in which the IPAM raised or
\* returned no IPv6 prefix
V3WithoutPrefix ==
  /\ nreq' = nreq + 1
  /\ response'.api = "v3"
  /\ ParkerQuery_from_dict(response'.msg).ok
  /\ parker'.last.key = response'.msg["pubkey"]
  /\ parker'.last.raised \/ parker'.last.range6 = NoNet

\* C25: a v3 request for which the IPAM raises or returns no IPv6 prefix is
\* answered with 500 and no body; nothing is published, neither worker
\* registry changes, and the ranges file and the prefixes handed out stay as
\* they were.
C25_NoPrefixNoSideEffect ==
  [][V3WithoutPrefix =>
       /\ response'.status = 500
       /\ response'.body = NoBody
       /\ published' = published
       /\ worker_metrics' = worker_metrics
       /\ parker'.worker_metrics = parker.worker_metrics
       /\ parker'.file = parker.file
       /\ parker'.returned = parker.returned]_vars

\* a request for KeyC was answered 500 after the IPAM found the parent used up
C25_Witness ==
  /\ response.api = "v3"
  /\ response.status = 500
  /\ response.msg["pubkey"] = KeyC
  /\ parker.last = [key |-> KeyC, raised |-> FALSE, range6 |-> NoNet,
                    parent |-> parker.file.parent]
  /\ published = <<>>

(***************************************************************************)
(* C26: reloading the allow-list and the deny-list                         *)
(***************************************************************************)
ListDomains == {DomainA, DomainB, DomainUnknown}
ListKeys == {KeyA, KeyB, KeyC, KeyD}

\* the file lists the key for the domain
AllowedInFile(file, d, k) ==
  \E i \in 1..Len(file.data.entries) :
    LET e == file.data.entries[i]
    IN  e.name = d /\ e.nested /\ \E n \in 1..Len(e.keys) : e.keys[n] = k

\* the file lists the key: as an item or in a mapping that is an item of the
\* sequence, or as a key of the mapping
DeniedInFile(file, k) ==
  \E i \in 1..Len(file.data.entries) :
    LET e == file.data.entries[i]
    IN  IF file.data.top = "list" /\ e.nested
        THEN \E n \in 1..Len(e.keys) : e.keys[n] = k
        ELSE e.name = k

\* the file holds YAML that has the layout of the list
WellFormed(file, tops) == file.state = "data" /\ file.data.top \in tops

NoDomains(cfg) == cfg.domains = <<>>

\* two entries of the domain list give the same interface suffix
SameSuffix(cfg) ==
  \E i, j \in 1..Len(cfg.domains) :
    /\ i # j
    /\ CleanedDomain(cfg.domains[i], cfg.prefixes, 1) # <<>>
    /\ CleanedDomain(cfg.domains[i], cfg.prefixes, 1)
         = CleanedDomain(cfg.domains[j], cfg.prefixes, 1)

\* a domain of the list begins with none of the configured prefixes
NoPrefixAtStart(cfg) ==
  \E i \in 1..Len(cfg.domains) :
    \A n \in 1..Len(cfg.prefixes) : ~StartsWith(cfg.domains[i], cfg.prefixes[n])

BadDomains(cfg) == NoDomains(cfg) \/ SameSuffix(cfg) \/ NoPrefixAtStart(cfg)

NeverStarted(w) ==
  /\ ~mqtt_client[w].started
  /\ threads[w].installer = "unstarted"
  /\ probe.outcome[w] # "started"

OnlineAt(location, d) ==
  {w \in DOMAIN workers_cfg :
     workers_cfg[w].location = location /\ is_online(get(worker_metrics, w), d)}

DiffOf(w) ==
  WorkerResult(workers_cfg, get(worker_metrics, w),
               get_total_peer_count(worker_metrics)).diff

\* C28: get_best_worker(domain, location=L) returns a worker of location L
\* that is online for the domain and has the least diff among these when
\* there is one, and otherwise the best online worker of any location.
C28_LocationPreferred ==
  probe.op = "get_best_worker" =>
    /\ ~probe.raised
    /\ IF OnlineAt(probe.location, probe.domain) # {}
       THEN /\ probe.name \in OnlineAt(probe.location, probe.domain)
            /\ \A w \in OnlineAt(probe.location, probe.domain) :
                 DiffOf(probe.name) <= DiffOf(w)
       ELSE probe.name = get_best_worker(workers_cfg, worker_metrics, probe.domain).name

(***************************************************************************)
(* C29: the flusher and the installer on one peer                          *)
(***************************************************************************)
\* what link_handler installs for a key on the interface of a domain
EntriesFor(domain, key) ==
  link_handler(NoPeers, [public_key |-> key, domain |-> domain, remove |-> FALSE])

AllOrNone(w, domain, key) ==
  LET e == EntriesFor(domain, key)
      k == netlink[w]
  IN  \/ e.wg \subseteq k.wg /\ e.route \subseteq k.route /\ e.fdb \subseteq k.fdb
      \/ e.wg \cap k.wg = {} /\ e.route \cap k.route = {} /\ e.fdb \cap k.fdb = {}

NoLinkHandlerUnderWay(w) == threads[w].link = NoLinks

\* C29: whenever neither the installer nor a flusher of a worker is inside
\* link_handler, the kernel holds for every domain and key all of WireGuard
\* peer, route and FDB entry, or none of them.
C29_PeerAllOrNone ==
  \A w \in WorkerNames :
    NoLinkHandlerUnderWay(w) =>
      \A key \in InterleaveKeys : AllOrNone(w, <<"a">>, key)

(***************************************************************************)
(* C30: a value from the bus and an increment computed before it           *)
(***************************************************************************)
\* connected_peers of (w, d) in the registry reg
PeersIn(reg, w, d) ==
  DictGet(get_domain_metrics(get(reg, w), d), CONNECTED_PEERS_METRIC, 0)

\* handler h writes its increment, and its read came before the last value
\* the bus stored for its worker and domain
WritesOverStore(h) ==
  /\ http[h].pc = "update"
  /\ http'[h].pc = "lookup"
  /\ <<h, http[h].seq>> \in probe.readers
  /\ probe.worker = http[h].best
  /\ probe.domain = http[h].domain

\* C30: when the bus stored v for (w, d) after a v2 handler read
\* connected_peers of (w, d) as u, with v other than u+1, the handler's update
\* does not leave u+1 in the registry for (w, d).
C30_BusValueNotOverwritten ==
  [][\A h \in Handlers :
       (WritesOverStore(h) /\ probe.peers # http[h].cur + 1)
         => PeersIn(worker_metrics', http[h].best, http[h].domain) # http[h].cur + 1]_vars

(***************************************************************************)
(* C31: get_best_worker while the bus updates the registry                 *)
(***************************************************************************)
\* the call returned what get_best_worker gives on one registry state that
\* existed between the call and the return
FromOneSnapshot(call) ==
  \E reg \in call.states : call.result = get_best_worker(workers_cfg, reg, call.domain)

\* C31: a get_best_worker call that runs while the bus handlers update the
\* registry raises no error and returns the result of get_best_worker on one
\* registry state that existed between the call and its return.
C31_ResultFromOneSnapshot ==
  probe.pc = "returned" => ~probe.raised /\ FromOneSnapshot(probe)

(***************************************************************************)
(* C32, C33: the operations of one link_handler call                       *)
(***************************************************************************)
LinkHandlerCalled == probe.op = "link_handler"

\* C32: link_handler attempts all three operations and returns a result map
\* with an entry for each, whichever of them fail; the error of a failing
\* operation is recorded under its key.
C32_AllOperationsAttempted ==
  LinkHandlerCalled =>
    /\ ~probe.raised
    /\ {probe.attempted[i] : i \in 1..Len(probe.attempted)} = NetlinkOperations
    /\ DOMAIN probe.results = NetlinkOperations
    /\ \A op \in probe.failing : probe.results[op] = "exception"

IsPrefixOf(a, b) == Len(a) <= Len(b) /\ SubSeq(b, 1, Len(a)) = a

\* C33: for one client link_handler calls the WireGuard peer operation first,
\* then the route operation, then the bridge-FDB operation, for installs and
\* for removals alike.
C33_OperationOrder ==
  LinkHandlerCalled =>
    /\ IsPrefixOf(probe.attempted, <<"Wireguard", "Route", "Bridge FDB">>)
    /\ Len(probe.attempted) >= 1
    /\ ~probe.raised => Len(probe.attempted) = 3

C33_Witness ==
  /\ LinkHandlerCalled
  /\ probe.client.remove
  /\ probe.attempted = <<"Wireguard", "Route", "Bridge FDB">>
  /\ netlink["w1"] = NoPeers
  /\ calls["w1"] # <<>>

(***************************************************************************)
(* C34: the retry of an interrupted dump                                   *)
(***************************************************************************)
\* the payload the bus retains for the metrics topic of (w, d); -2 when it
\* retains none
RetainedMetric(log, w, d) ==
  LET on_topic == { i \in 1..Len(log) : /\ log[i].kind = "metrics"
                                        /\ log[i].worker = w
                                        /\ log[i].domain = d
                                        /\ log[i].delivered }
  IN  IF on_topic = {} THEN -2
      ELSE log[CHOOSE i \in on_topic : \A j \in on_topic : j <= i].payload

\* the metrics thread of w1 for domain d runs one publish_metrics
MetricsCycleOf(d) ==
  /\ threads["w1"].metrics[d] = "test"
  /\ threads'["w1"].metrics[d] # "test"
  /\ ~exit_event["w1"]

BothInterrupted == <<"interrupted", "interrupted">>

\* C34: get_connected_peers_count reads the interface at most twice: once
\* when the first read is not interrupted, exactly twice when it is; when
\* the second read is interrupted too nothing is published in that cycle,
\* the retained value stays, and the loop goes on.
C34_RetryOnce ==
  [][\A d \in WorkerDomainSet :
       MetricsCycleOf(d) =>
         /\ probe'.reads <= 2
         /\ probe'.dumps[1] # "interrupted" => probe'.reads = 1
         /\ probe'.dumps[1] = "interrupted" => probe'.reads = 2
         /\ probe'.dumps = BothInterrupted =>
              /\ bus' = bus
              /\ RetainedMetric(bus', "w1", d) = RetainedMetric(bus, "w1", d)
              /\ threads'["w1"].metrics[d] = "finally"]_vars

C34_Witness ==
  /\ probe.op = "publish_metrics"
  /\ probe.dumps = BothInterrupted
  /\ probe.reads = 2
  /\ RetainedMetric(bus, "w1", probe.domain) = 1
  /\ threads["w1"].metrics[probe.domain] = "finally"

(***************************************************************************)
(* C35: online in the registry and the endpoint record                     *)
(***************************************************************************)
HasEndpoint(w, d) == <<w, d>> \in DOMAIN worker_data

\* C35: whenever a worker is online for a domain in the registry, its
\* endpoint record for that domain is present, and no v2 request is answered
\* 500 while every worker has its endpoint data retained on the bus.
C35_OnlineHasEndpoint ==
  /\ \A w \in WorkerNames, d \in {DomainA, DomainB} :
       is_online(get(worker_metrics, w), d) => HasEndpoint(w, d)
  /\ response.status # 500

(***************************************************************************)
(* C36: the flusher and a peer that is new                                 *)
(***************************************************************************)
\* the removals worker w has issued
Removals(w) == { i \in 1..Len(calls[w]) : calls[w][i].remove }

\* C36: while every peer of the worker was added by the installer less than
\* three hours ago and none has completed a handshake, the flusher removes
\* no peer.
C36_NewPeerNotRemoved == Removals("w1") = {}

(***************************************************************************)
(* C40: the flusher and the key whitelist                                  *)
(***************************************************************************)
WhitelistedPeers(w) == { p \in netlink[w].wg : OnWhitelist(p.public_key) }

\* C40: no run of the flusher, complete or cut short, issues a removal for a
\* key on the configured key whitelist, and every peer with such a key is
\* still a peer after the run, however old its last handshake is.
C40_WhitelistedNeverRemoved ==
  [][/\ \A i \in (Len(calls["w1"]) + 1)..Len(calls'["w1"]) :
          calls'["w1"][i].remove => ~OnWhitelist(calls'["w1"][i].public_key)
     /\ WhitelistedPeers("w1") \subseteq netlink'["w1"].wg]_vars

\* wg-a holds KeyB, which is on the whitelist, with a last handshake at the
\* epoch; a run for the domain went through and removed another peer
C40_Witness ==
  /\ probe.op = "flush_workers"
  /\ probe.domain = DomainA
  /\ probe.failure = NoFailure
  /\ OnWhitelist(KeyB)
  /\ PeerOf(<<"a">>, KeyB) \in netlink["w1"].wg
  /\ PeerOf(<<"a">>, KeyB) \in DOMAIN handshakes["w1"]
  /\ handshakes["w1"][PeerOf(<<"a">>, KeyB)] = 0
  /\ Removals("w1") # {}

(***************************************************************************)
(* C37: the keys the worker hands to link_handler                          *)
(***************************************************************************)
\* C37: every public key of a link_handler call of the worker matches the
\* WireGuard public-key pattern, whatever payload arrived on the topic.
C37_InstalledKeysMatchPattern ==
  \A i \in 1..Len(calls["w1"]) : MatchesPubkeyPattern(calls["w1"][i].public_key)

(***************************************************************************)
(* C38: one suffix for the queue, the interface name and the flusher       *)
(***************************************************************************)
\* C38: for a configured domain of a worker that got past its startup
\* checks, a message on wireguard/<domain>/all is enqueued, under the suffix
\* that wg_interface_name and the flusher derive for the domain.
C38_OneSuffix ==
  probe.last.domain # <<>> =>
    /\ probe.last.queued # <<>>
    /\ probe.last.queued = probe.last.interface
    /\ probe.last.flushed = {probe.last.queued}

(***************************************************************************)
(* C39: equally weighted workers are filled from the bottom                *)
(***************************************************************************)
AllOnlineFor(d) ==
  \A w \in WorkerNames : is_online(get(worker_metrics, w), d)

\* every request the broker has accepted so far was for domain d
RequestsOnlyFor(d) ==
  /\ \A i \in 1..Len(published) : published[i].topic = WireguardTopic(d, GatewayAll)
  /\ \A h \in Handlers : http[h].pc # "idle" => http[h].domain = d

\* the worker the handler has selected is one with the fewest peers
SelectedHasFewest ==
  \A h \in Handlers :
    http[h].pc = "read" =>
      get_peer_count(get(worker_metrics, http[h].best)) = MinPeerCount(worker_metrics)

\* C39: with equally weighted workers that are all online for d and no bus
\* update in between, v2 requests for d, one after the other, never make the
\* spread of the workers' peer counts larger than the larger of the spread
\* before the first request and 1, and each goes to a worker that has the
\* fewest peers.
C39_SpreadBounded ==
  \A d \in BalanceDomains :
    (AllOnlineFor(d) /\ RequestsOnlyFor(d)) =>
      /\ Spread(worker_metrics) <= (IF probe.spread > 1 THEN probe.spread ELSE 1)
      /\ SelectedHasFewest

\* two requests for DomainA have been served from a registry whose peer
\* counts were equal: the second went to the other worker
C39_Witness ==
  /\ probe.spread = 0
  /\ AllOnlineFor(DomainA) /\ RequestsOnlyFor(DomainA)
  /\ Len(published) = 2
  /\ \A h \in Handlers : http[h].pc = "idle"
  /\ response.status = 200
  /\ Spread(worker_metrics) = 0
  /\ MinPeerCount(worker_metrics) > 0

=============================================================================
